---------------------------- MODULE Spec2Model ----------------------------
(***************************************************************************)
(* A model of the MAG refinement core (src/src/models.py):                 *)
(*   - AbundanceDB, the memory-mapped depth-file lookup, and its scoped    *)
(*     use by SessionManager._get_abundance_data;                          *)
(*   - ContigID, the FASTA header parser (strict and lenient);             *)
(*   - Mag, the record entity and its derived properties.                  *)
(*                                                                         *)
(* Text is modelled as a sequence of tokens.  A token is a TLA+ string     *)
(* that stands for the characters it spells; the tokens used as input are  *)
(* single characters or indivisible chunks ("ctg", "_merged.bam", "-var",  *)
(* "len", ...).  Python's str operations (split, strip, removesuffix,      *)
(* the `in` substring test, the regular expression) are defined on these   *)
(* sequences.  A float is modelled as a fixed-point integer: value*Scale.  *)
(* A Python dict is a sequence of <<key, value>> pairs with distinct keys, *)
(* in insertion order.                                                     *)
(***************************************************************************)
EXTENDS Integers, Sequences, FiniteSets, TLC

\* ------------------------------------------------------------------------
\* Bounds of the model
\* ------------------------------------------------------------------------

\* The largest number of data lines (lines after the header) of a depth file.
MaxLines == 2

\* The largest number of contigs of a Mag.
MaxContigs == 2

\* The largest number of contigs of a Mag whose coverage is read.
MaxCoverageContigs == 3

\* The number of significant decimal digits the float model keeps.
FloatDigits == 2

\* The largest number of rows of a summary file.
MaxRows == 2

\* The largest number of calls made on one SummaryRepository, and of
\* lookups made on one AbundanceDB.
MaxCalls == 2

\* The number of worker processes that run get_mag at the same time.
MaxWorkers == 2

\* The largest number of MAGs run_workflow is given.
MaxMags == 3

\* The number of decimal digits the fixed-point float model keeps.
FracDigits == 1

Scale == 10 ^ FracDigits

\* ------------------------------------------------------------------------
\* Python str / bytes operations on token sequences
\* ------------------------------------------------------------------------

TAB == "\t"
SPACE == " "
\* A byte that is not valid UTF-8 (0xff): bytes.decode raises on it.
BadByte == "0xff"

Range(s) == {s[i] : i \in 1..Len(s)}

\* str.strip() with no argument removes leading and trailing whitespace.
NL == "\n"
IsSpace(t) == t \in {TAB, SPACE, NL}

RECURSIVE LStrip(_)
LStrip(s) == IF s # <<>> /\ IsSpace(Head(s)) THEN LStrip(Tail(s)) ELSE s

RECURSIVE RStrip(_)
RStrip(s) ==
    IF s # <<>> /\ IsSpace(s[Len(s)]) THEN RStrip(SubSeq(s, 1, Len(s) - 1)) ELSE s

Strip(s) == RStrip(LStrip(s))

\* str.split(sep) for a one-token separator: always at least one field.
RECURSIVE Split(_, _)
Split(s, sep) ==
    IF \A i \in 1..Len(s) : s[i] # sep
    THEN <<s>>
    ELSE LET k == CHOOSE i \in 1..Len(s) :
                      s[i] = sep /\ \A j \in 1..(i - 1) : s[j] # sep
         IN  <<SubSeq(s, 1, k - 1)>> \o Split(SubSeq(s, k + 1, Len(s)), sep)

\* str.endswith / str.removesuffix
EndsWith(s, suf) ==
    /\ Len(suf) <= Len(s)
    /\ SubSeq(s, Len(s) - Len(suf) + 1, Len(s)) = suf

RemoveSuffix(s, suf) ==
    IF suf # <<>> /\ EndsWith(s, suf) THEN SubSeq(s, 1, Len(s) - Len(suf)) ELSE s

\* `name in line`: name occurs as a contiguous run of the line.
Contains(line, name) ==
    \E i \in 1..(Len(line) - Len(name) + 1) :
        SubSeq(line, i, i + Len(name) - 1) = name

\* bytes.decode('utf-8') succeeds
Decodable(line) == BadByte \notin Range(line)

\* ------------------------------------------------------------------------
\* float(str): optional surrounding whitespace, optional sign, digits with
\* at most one ".", at least one digit.  The value is kept times Scale.
\* ------------------------------------------------------------------------

Digits == {"0", "1", "2", "5", "7"}

DigitVal(t) ==
    CASE t = "0" -> 0 [] t = "1" -> 1 [] t = "2" -> 2 [] t = "5" -> 5
      [] t = "7" -> 7 [] OTHER -> 0

\* int(str) of a run of digits
RECURSIVE IntOf(_)
IntOf(ds) ==
    IF ds = <<>> THEN 0
    ELSE 10 * IntOf(SubSeq(ds, 1, Len(ds) - 1)) + DigitVal(ds[Len(ds)])

AllDigits(s) == \A i \in 1..Len(s) : s[i] \in Digits

\* The first FracDigits digits of a fraction, zero-padded on the right
FracPart(fp) ==
    [i \in 1..FracDigits |-> IF i <= Len(fp) THEN fp[i] ELSE "0"]

\* The unsigned part of a float literal: [ok, val]
UFloat(s) ==
    LET parts == Split(s, ".") IN
    IF Len(parts) = 1
    THEN [ok |-> s # <<>> /\ AllDigits(s), val |-> IntOf(s) * Scale]
    ELSE IF Len(parts) = 2
    THEN LET ip == parts[1]
             fp == parts[2]
         IN  [ok  |-> AllDigits(ip) /\ AllDigits(fp) /\ Len(ip) + Len(fp) > 0,
              val |-> IntOf(ip) * Scale + IntOf(FracPart(fp))]
    ELSE [ok |-> FALSE, val |-> 0]

ParseFloat(field) ==
    LET s == Strip(field) IN
    IF s # <<>> /\ Head(s) = "-"
    THEN LET u == UFloat(Tail(s)) IN [ok |-> u.ok, val |-> 0 - u.val]
    ELSE UFloat(s)

\* ------------------------------------------------------------------------
\* Python dict: a sequence of <<key, value>> pairs, keys distinct
\* ------------------------------------------------------------------------

EmptyDict == <<>>

DictKeys(d) == {d[i][1] : i \in 1..Len(d)}

DictGet(d, k) == d[CHOOSE i \in 1..Len(d) : d[i][1] = k][2]

\* d[k] = v: overwrite in place, or append
DictSet(d, k, v) ==
    IF k \in DictKeys(d)
    THEN [i \in 1..Len(d) |-> IF d[i][1] = k THEN <<k, v>> ELSE d[i]]
    ELSE Append(d, <<k, v>>)

\* d.get(k, {})
DictGetOrEmpty(d, k) == IF k \in DictKeys(d) THEN DictGet(d, k) ELSE EmptyDict

\* The dict seen as a function from its keys
DictAsFn(d) == [k \in DictKeys(d) |-> DictGet(d, k)]

\* list(d.values())
DictValues(d) == [i \in 1..Len(d) |-> d[i][2]]

\* ------------------------------------------------------------------------
\* AbundanceDB (src/src/models.py, lines 25-104)
\* ------------------------------------------------------------------------

VarSuffix == <<"-var">>
BamSuffix == <<"_merged.bam">>

\* header_line = readline().decode().strip(); header_fields = split('\t')
HeaderFields(raw_header) == Split(Strip(raw_header), TAB)

\* original_var_cols = {h for h in header_fields if h.endswith("-var")}
OriginalVarCols(header_fields) ==
    {h \in Range(header_fields) : EndsWith(h, VarSuffix)}

\* cleaned_var_names = {h.removesuffix("-var") for h in original_var_cols}
CleanedVarNames(header_fields) ==
    {RemoveSuffix(h, VarSuffix) : h \in OriginalVarCols(header_fields)}

\* A mutant of IsValueColumn: the variance sibling is not required.
IsValueColumnNoSibling(header_fields, hf) ==
    hf \notin OriginalVarCols(header_fields)

\* if hf not in original_var_cols and hf in cleaned_var_names
IsValueColumn(header_fields, hf) ==
    /\ hf \notin OriginalVarCols(header_fields)
    /\ hf \in CleanedVarNames(header_fields)

\* The loop over header_fields: original_keys_to_extract, in header order
RECURSIVE KeysFrom(_, _)
KeysFrom(header_fields, rest) ==
    IF rest = <<>> THEN <<>>
    ELSE (IF IsValueColumn(header_fields, Head(rest)) THEN <<Head(rest)>> ELSE <<>>)
         \o KeysFrom(header_fields, Tail(rest))

OriginalKeysToExtract(header_fields) == KeysFrom(header_fields, header_fields)

\* target_data_cols: hf.removesuffix("_merged.bam") of each extracted key
TargetDataCols(header_fields) ==
    LET keys == OriginalKeysToExtract(header_fields)
    IN  [i \in 1..Len(keys) |-> RemoveSuffix(keys[i], BamSuffix)]

\* A mutant of NoSampleColumns: the constructor never rejects a header.
NoSampleColumnsNever(target_data_cols) == FALSE

\* if not self.target_data_cols: raise ValueError
NoSampleColumns(target_data_cols) == target_data_cols = <<>>

\* The exception AbundanceDB.__init__ raises on the file, or "none".
\* mmap of an empty file raises ValueError; decode of the header may raise
\* UnicodeDecodeError; a header without sample columns raises ValueError.
InitException(file_lines) ==
    IF file_lines = <<>> THEN "ValueError"
    ELSE IF ~Decodable(file_lines[1]) THEN "UnicodeDecodeError"
    ELSE IF NoSampleColumns(TargetDataCols(HeaderFields(file_lines[1])))
         THEN "ValueError"
    ELSE "none"

\* dict(zip(header_fields, line_values)): the value of the last pair whose
\* key is k, among the first min(len, len) pairs
ZipLen(header_fields, line_values) ==
    IF Len(header_fields) < Len(line_values)
    THEN Len(header_fields) ELSE Len(line_values)

InFullRowDict(header_fields, line_values, k) ==
    \E i \in 1..ZipLen(header_fields, line_values) : header_fields[i] = k

FullRowDictGet(header_fields, line_values, k) ==
    LET n == ZipLen(header_fields, line_values)
        last == CHOOSE i \in 1..n :
                    header_fields[i] = k
                    /\ \A j \in (i + 1)..n : header_fields[j] # k
    IN  line_values[last]

\* The dict comprehension of lines 83-87, over the pairs i..Len of
\* zip(target_data_cols, original_keys_to_extract): [exc, dict]
RECURSIVE ResultDictFrom(_, _, _, _)
ResultDictFrom(db, line_values, i, acc) ==
    IF i > Len(db.target_data_cols) THEN [exc |-> "none", dict |-> acc]
    ELSE LET original_key == db.original_keys_to_extract[i]
             target_key == db.target_data_cols[i]
         IN  IF ~InFullRowDict(db.header_fields, line_values, original_key)
             THEN ResultDictFrom(db, line_values, i + 1, acc)
             ELSE LET f == ParseFloat(FullRowDictGet(db.header_fields,
                                                     line_values, original_key))
                  IN  IF ~f.ok THEN [exc |-> "ValueError", dict |-> EmptyDict]
                      ELSE ResultDictFrom(db, line_values, i + 1,
                                          DictSet(acc, target_key, f.val))

\* The try body of lines 79-87 on one raw line: [exc, dict]
ParseLine(db, line_bytes) ==
    IF ~Decodable(line_bytes)
    THEN [exc |-> "UnicodeDecodeError", dict |-> EmptyDict]
    ELSE ResultDictFrom(db, Split(Strip(line_bytes), TAB), 1, EmptyDict)

\* A mutant of Caught: a ValueError of float() escapes the scan.
CaughtNoValueError(exc) == exc \in {"UnicodeDecodeError", "IndexError"}

\* except (UnicodeDecodeError, IndexError, ValueError): continue
Caught(exc) == exc \in {"UnicodeDecodeError", "IndexError", "ValueError"}

\* The names of contigs_left that occur in the line (lines 72-75 take the
\* first one in the set's iteration order, which is any of them).
MatchingNames(contigs_left, line_bytes) ==
    {name \in contigs_left : Contains(line_bytes, name)}

\* A mutant of close: the file handle is left open.
close_mm_only(handles) == [handles EXCEPT !.mm = FALSE]

\* AbundanceDB.close: closes the mapped view and the file
close(handles) == [file |-> FALSE, mm |-> FALSE]

\* ------------------------------------------------------------------------
\* ContigID (src/src/models.py, lines 107-170)
\* ------------------------------------------------------------------------

\* Tokens that hold a character outside [A-Za-z0-9_]
NonWordTokens == {">", SPACE, TAB, "-", ".", BadByte, "-var", "_merged.bam"}

\* The character classes of HEADER_PATTERN: \w, \d and [\d.-]
InClass(t, cls) ==
    CASE cls = "w" -> t \notin NonWordTokens
      [] cls = "d" -> t \in Digits
      [] cls = "x" -> t \in Digits \cup {".", "-"}
      [] OTHER -> FALSE

\* tokens i..j of s are a non-empty run of the class
RunOf(s, i, j, cls) ==
    /\ 1 <= i /\ i <= j /\ j <= Len(s)
    /\ \A k \in i..j : InClass(s[k], cls)

\* the literal lit stands at position i of s
LitAt(s, i, lit) ==
    /\ i >= 1 /\ i + Len(lit) - 1 <= Len(s)
    /\ SubSeq(s, i, i + Len(lit) - 1) = lit

\* (yes|possibly|no) at position i of s
HeaderEnum == {"yes", "possibly", "no"}
EnumAt(s, i) == i >= 1 /\ i <= Len(s) /\ s[i] \in HeaderEnum

LitLen == <<"_", "len", "-">>
LitCircular == <<"_", "circular", "-">>
LitDepth == <<"_", "depth", "-">>
LitDuplicated == <<"_", "duplicated", "-">>

\* Every way HEADER_PATTERN matches s, as <<g, a, b, c>>: g tokens of '>',
\* the name ends at a, the length at b, the depth at c and the string right
\* after the duplicated enum.
\*   ^>?(\w+)_len-(\d+)_circular-(yes|possibly|no)_depth-([\d.-]+)
\*     _duplicated-(yes|possibly|no)$
PatternMatches(s) ==
    LET n == Len(s)
        G == {0} \cup (IF n > 0 /\ s[1] = ">" THEN {1} ELSE {})
    IN  UNION { UNION { UNION { { <<g, a, b, c>> :
            c \in { c \in (b + 8)..n :
                      /\ RunOf(s, b + 8, c, "x")
                      /\ LitAt(s, c + 1, LitDuplicated)
                      /\ EnumAt(s, c + 4)
                      /\ c + 4 = n } } :
            b \in { b \in (a + 4)..n :
                      /\ RunOf(s, a + 4, b, "d")
                      /\ LitAt(s, b + 1, LitCircular)
                      /\ EnumAt(s, b + 4)
                      /\ LitAt(s, b + 5, LitDepth) } } :
            a \in { a \in (g + 1)..n :
                      /\ RunOf(s, g + 1, a, "w")
                      /\ LitAt(s, a + 1, LitLen) } } :
            g \in G }

\* HEADER_PATTERN.match(s): [matched, groups]; of several matches the
\* greedy one (longest '>?', then longest name, length, depth) is taken.
HeaderPatternMatch(s) ==
    LET M == PatternMatches(s) IN
    IF M = {}
    THEN [matched |-> FALSE, groups |-> <<>>]
    ELSE LET Before(u, v) ==
                 \/ u[1] > v[1]
                 \/ u[1] = v[1] /\ u[2] > v[2]
                 \/ u[1] = v[1] /\ u[2] = v[2] /\ u[3] > v[3]
                 \/ u[1] = v[1] /\ u[2] = v[2] /\ u[3] = v[3] /\ u[4] >= v[4]
             m == CHOOSE u \in M : \A v \in M : Before(u, v)
         IN  [matched |-> TRUE,
              groups  |-> [name       |-> SubSeq(s, m[1] + 1, m[2]),
                           length     |-> SubSeq(s, m[2] + 4, m[3]),
                           circular   |-> s[m[3] + 4],
                           depth      |-> SubSeq(s, m[3] + 8, m[4]),
                           duplicated |-> s[m[4] + 4]]]

\* header.split(" ")[0]
BeforeFirstSpace(header) == Split(header, SPACE)[1]

NoHeader == [name |-> <<>>, length |-> 0, is_circular |-> FALSE,
             mylo_depth |-> <<>>, is_duplicated |-> FALSE]

\* A mutant of ContigID_post_init: "possibly" counts as circular.
ContigID_post_init_possibly(header) ==
    LET match == HeaderPatternMatch(BeforeFirstSpace(header)) IN
    IF ~match.matched
    THEN [exc |-> "ValueError", header |-> NoHeader]
    ELSE [exc |-> "none",
          header |-> [name          |-> match.groups.name,
                      length        |-> IntOf(match.groups.length),
                      is_circular   |-> match.groups.circular \in {"yes", "possibly"},
                      mylo_depth    |-> match.groups.depth,
                      is_duplicated |-> match.groups.duplicated = "yes"]]

\* ContigID.__post_init__ (lines 121-135): [exc, header]
ContigID_post_init(header) ==
    LET match == HeaderPatternMatch(BeforeFirstSpace(header)) IN
    IF ~match.matched
    THEN [exc |-> "ValueError", header |-> NoHeader]
    ELSE [exc |-> "none",
          header |-> [name          |-> match.groups.name,
                      length        |-> IntOf(match.groups.length),
                      is_circular   |-> match.groups.circular = "yes",
                      mylo_depth    |-> match.groups.depth,
                      is_duplicated |-> match.groups.duplicated = "yes"]]

\* A mutant of parse_name_from_header: the comment after the first space
\* is not cut off before matching.
parse_name_from_header_nosplit(header_string) ==
    LET match == HeaderPatternMatch(header_string) IN
    IF match.matched
    THEN [isNone |-> FALSE, name |-> match.groups.name]
    ELSE [isNone |-> TRUE, name |-> <<>>]

\* ContigID.parse_name_from_header (lines 137-143): the name, or None
parse_name_from_header(header_string) ==
    LET match == HeaderPatternMatch(BeforeFirstSpace(header_string)) IN
    IF match.matched
    THEN [isNone |-> FALSE, name |-> match.groups.name]
    ELSE [isNone |-> TRUE, name |-> <<>>]

\* sum(values): a left fold from 0
RECURSIVE SumSeq(_)
SumSeq(vals) ==
    IF vals = <<>> THEN 0 ELSE SumSeq(SubSeq(vals, 1, Len(vals) - 1)) + vals[Len(vals)]

\* A mutant of depth_from_all_samples: only the first sample is counted.
depth_from_all_samples_first(abund_info) ==
    IF abund_info = EmptyDict THEN 0 ELSE DictValues(abund_info)[1]

\* ContigID.depth_from_all_samples (lines 165-170)
depth_from_all_samples(abund_info) ==
    IF abund_info = EmptyDict THEN 0 ELSE SumSeq(DictValues(abund_info))

\* ------------------------------------------------------------------------
\* Mag (src/src/models.py, lines 172-272)
\* ------------------------------------------------------------------------

Min(a, b) == IF a < b THEN a ELSE b

\* name.split("_")
NameTokens(name) == Split(name, "_")

\* Mag.sample (line 187)
Mag_sample(name) == [exc |-> "none", val |-> NameTokens(name)[1]]

\* Mag.long_sample (line 189): f"C00{sample[1]}_{sample[2:4]}"
Mag_long_sample(name) ==
    LET sample == NameTokens(name)[1] IN
    IF Len(sample) < 2
    THEN [exc |-> "IndexError", val |-> <<>>]
    ELSE [exc |-> "none",
          val |-> <<"C", "0", "0", sample[2], "_">>
                  \o SubSeq(sample, 3, Min(4, Len(sample)))]

\* Mag.binner (line 191): name.split("_")[2].split(".")[0]
Mag_binner(name) ==
    IF Len(NameTokens(name)) < 3
    THEN [exc |-> "IndexError", val |-> <<>>]
    ELSE [exc |-> "none", val |-> Split(NameTokens(name)[3], ".")[1]]

\* { "A": "myloasm", "M": "medaka", "P": "proovframe" }
AssemblerCodes == {<<"A">>, <<"M">>, <<"P">>}
AssemblerOf(code) ==
    CASE code = <<"A">> -> <<"myloasm">>
      [] code = <<"M">> -> <<"medaka">>
      [] code = <<"P">> -> <<"proovframe">>

\* Mag.assembler (line 193): the dict is subscripted, not .get()
Mag_assembler(name) ==
    IF Len(NameTokens(name)) < 2
    THEN [exc |-> "IndexError", val |-> <<>>]
    ELSE LET code == NameTokens(name)[2] IN
         IF code \in AssemblerCodes
         THEN [exc |-> "none", val |-> AssemblerOf(code)]
         ELSE [exc |-> "KeyError", val |-> <<>>]

\* The thresholds of Mag.is_high_quality
HighQualityCompleteness == 90
HighQualityContamination == 5

\* A mutant of Mag_is_high_quality: the completeness bound is exclusive.
Mag_is_high_quality_strict(data) ==
    /\ data.Completeness > HighQualityCompleteness * Scale
    /\ data.Contamination <= HighQualityContamination * Scale

\* Mag.is_high_quality (line 272)
Mag_is_high_quality(data) ==
    /\ data.Completeness >= HighQualityCompleteness * Scale
    /\ data.Contamination <= HighQualityContamination * Scale

\* ------------------------------------------------------------------------
\* Inputs of the depth-file lookup
\* ------------------------------------------------------------------------

\* Contig names (each matches \w+); ctg1 is a substring of ctg10
ctgA == <<"ctg", "A">>
ctg1 == <<"ctg", "1">>
ctg10 == <<"ctg", "1", "0">>
ContigNames == {ctgA, ctg1, ctg10}

\* Column names
ColName == <<"contigName">>
ColS1 == <<"S1", "_merged.bam">>
ColS1Var == <<"S1", "_merged.bam", "-var">>
ColS2 == <<"S2", "_merged.bam">>
ColS2Var == <<"S2", "_merged.bam", "-var">>

\* str.join of fields with a tab
RECURSIVE JoinTab(_)
JoinTab(fields) ==
    IF Len(fields) = 0 THEN <<>>
    ELSE IF Len(fields) = 1 THEN fields[1]
    ELSE fields[1] \o <<TAB>> \o JoinTab(Tail(fields))

\* Header lines: one sample; two samples; an unnamed (empty) first column;
\* no variance sibling; a cleaned-name collision; not UTF-8
HeaderLines ==
    { JoinTab(<<ColName, ColS1, ColS1Var>>),
      JoinTab(<<ColName, ColS1, ColS1Var, ColS2, ColS2Var>>),
      JoinTab(<<<<>>, ColS1, ColS1Var>>),
      JoinTab(<<ColName, <<"length">>, ColS1>>),
      JoinTab(<<ColName, <<"S1">>, <<"S1", "-var">>, ColS1, ColS1Var>>),
      JoinTab(<<<<BadByte>>, ColS1, ColS1Var>>) }

\* Data lines
DataLines ==
    { JoinTab(<<ctgA, <<"5", ".", "0">>, <<"0", ".", "1">>>>),
      JoinTab(<<ctg10, <<"2", ".", "5">>, <<"0", ".", "2">>>>),
      JoinTab(<<ctgA, <<"x">>, <<"0", ".", "1">>>>),
      JoinTab(<<ctgA, <<"1", ".", "0">>, <<"0", ".", "1">>,
                <<"2", ".", "0">>, <<"0", ".", "5">>>>),
      JoinTab(<<ctgA, <<"7">>, <<>>>>),
      JoinTab(<<ctgA, <<"1">>, <<BadByte>>>>),
      ctgA }

RECURSIVE SeqsUpTo(_, _)
SeqsUpTo(S, n) ==
    IF n = 0 THEN {<<>>}
    ELSE LET shorter == SeqsUpTo(S, n - 1)
         IN  shorter \cup {Append(q, x) : q \in shorter, x \in S}

\* A depth file: absent, or its lines (the first is the header); the file
\* of no lines is the empty file.
DepthFiles ==
    {[exists |-> FALSE, lines |-> <<>>], [exists |-> TRUE, lines |-> <<>>]}
    \cup {[exists |-> TRUE, lines |-> <<h>> \o d] :
              h \in HeaderLines, d \in SeqsUpTo(DataLines, MaxLines)}

\* ------------------------------------------------------------------------
\* Inputs of the header parser
\* ------------------------------------------------------------------------

\* A header is put together from its segments; some choices of each
\* segment break the grammar.
HeaderParts ==
    [ gt         : {<<>>, <<">">>, <<">", ">">>},
      name       : {<<"ctg", "A">>, <<"ctg", "_", "len">>, <<"ctg", "-", "A">>, <<>>},
      length     : {<<"1", "0">>, <<"0", "7">>, <<"x">>, <<>>},
      circular   : {"yes", "possibly", "no", "maybe"},
      hasDepth   : BOOLEAN,
      depth      : {<<"5", "-", "5">>, <<"1", ".", "0">>, <<"x">>},
      duplicated : {"yes", "possibly", "no"},
      suffix     : {<<>>, <<SPACE, "x">>, <<"x">>} ]

BuildHeader(p) ==
    p.gt \o p.name \o LitLen \o p.length \o LitCircular \o <<p.circular>>
    \o (IF p.hasDepth THEN LitDepth \o p.depth ELSE <<>>)
    \o LitDuplicated \o <<p.duplicated>> \o p.suffix

NoParts == [gt |-> <<>>, name |-> <<>>, length |-> <<>>, circular |-> "no",
            hasDepth |-> FALSE, depth |-> <<>>, duplicated |-> "no",
            suffix |-> <<>>]

\* ------------------------------------------------------------------------
\* Inputs of the record entity
\* ------------------------------------------------------------------------

\* A decimal literal i.f (one fractional digit) in the fixed-point model
Dec(i, f) == i * Scale + f * (Scale \div 10)

\* Identifiers {sample_code}_{assembler_code}_{binner}.{cluster_id}
MagNameParts ==
    [ sample_code    : {<<"C", "1", "A", "3">>, <<"C", "2", "B">>,
                        <<"C", "1", "A", "3", "5">>},
      assembler_code : {<<"A">>, <<"M">>, <<"P">>, <<"X">>},
      binner         : {<<"metabat">>, <<"semibin">>},
      cluster_id     : {<<"872">>} ]

BuildMagName(p) ==
    p.sample_code \o <<"_">> \o p.assembler_code \o <<"_">> \o p.binner
    \o <<".">> \o p.cluster_id

\* Rows of the summary table: the two columns is_high_quality reads
MagData ==
    [ Completeness  : {Dec(89, 9), Dec(90, 0), Dec(95, 0)},
      Contamination : {Dec(2, 0), Dec(5, 0), Dec(5, 1)} ]

SampleS1 == <<"S1">>
SampleS2 == <<"S2">>

\* Contigs: the parsed length and the abundance dict
Contigs ==
    { [length |-> 10, abund_info |-> EmptyDict],
      [length |-> 10, abund_info |-> << <<SampleS1, Dec(5, 0)>> >>],
      [length |-> 20, abund_info |-> << <<SampleS1, Dec(1, 0)>>, <<SampleS2, Dec(2, 5)>> >>],
      [length |-> 0,  abund_info |-> << <<SampleS2, Dec(0, 0)>>, <<SampleS1, Dec(7, 1)>> >>] }

\* ------------------------------------------------------------------------
\* State
\* ------------------------------------------------------------------------

VARIABLES
    depth_file,       \* the depth file on disk (an input, never written)
    contig_names,     \* the set handed to _get_abundance_data
    pc,               \* the position in _get_abundance_data
    handles,          \* [file, mm]: the open file handle and mapped view
    withEntered,      \* the with block of line 388 has been entered
    db,               \* the AbundanceDB's header_fields, keys and columns
    scan,             \* get_abund_for_contigs' locals: contigs_left, results, pos
    exc,              \* the exception propagating or raised, "none" if none
    ret,              \* the value _get_abundance_data returned
    header_parts,     \* the segments the header was put together from
    header_string,    \* the header line handed to the parser
    strict,           \* the outcome of ContigID(header_string, {})
    lenient,          \* the outcome of ContigID.parse_name_from_header
    mag_parts,        \* the segments the identifier was put together from
    mag,              \* the Mag: name, _data, contigids
    prop,             \* the last property read: [op, arg, exc, val]
    world,            \* what get_mag finds: the request, the summary, the files
    asm,              \* get_mag's position and locals
    asm_out,          \* what get_mag returned or raised
    fs_log,           \* the lookups get_mag made, in order
    summary_file,     \* the rows of the summary TSV file
    repo,             \* the SummaryRepository: loaded, exc, summary
    call,             \* the last call on the repository: [op, arg, exc, val]
    stderr,           \* the messages printed to sys.stderr
    index_file,       \* the lines of the depth file an AbundanceDB is opened on
    index,            \* the AbundanceDB: its lists, the position of its mmap
    resolve,          \* the locals of the get_abund_for_contigs call in progress
    pool_world,       \* what the workers of the pool find: the summary, the files
    workers,          \* per worker process: get_mag's position, locals, handles
    wf                \* run_workflow: its arguments, position, commands issued

abundVars == <<depth_file, contig_names, pc, handles, withEntered, db, scan, exc, ret>>

headerVars == <<header_parts, header_string, strict, lenient>>

recordVars == <<mag_parts, mag, prop>>

assemblyVars == <<world, asm, asm_out, fs_log>>

summaryVars == <<summary_file, repo, call, stderr>>

indexVars == <<index_file, index, resolve>>

poolVars == <<pool_world, workers>>

workflowVars == <<wf>>

vars == <<abundVars, headerVars, recordVars, assemblyVars, summaryVars,
          indexVars, poolVars, workflowVars>>

\* ------------------------------------------------------------------------
\* The depth-file lookup: _get_abundance_data and AbundanceDB
\* ------------------------------------------------------------------------

NoDB == [header_fields |-> <<>>, original_keys_to_extract |-> <<>>,
         target_data_cols |-> <<>>]
NoScan == [contigs_left |-> {}, results |-> EmptyDict, pos |-> 0]
NoHandles == [file |-> FALSE, mm |-> FALSE]

AbundInit ==
    /\ depth_file \in DepthFiles
    /\ contig_names \in SUBSET ContigNames
    /\ pc = "start"
    /\ handles = NoHandles
    /\ withEntered = FALSE
    /\ db = NoDB
    /\ scan = NoScan
    /\ exc = "none"
    /\ ret = EmptyDict

\* _get_abundance_data, line 385: no file or no names: return {}
ReturnEmpty ==
    /\ pc = "start"
    /\ ~depth_file.exists \/ contig_names = {}
    /\ pc' = "done"
    /\ ret' = EmptyDict
    /\ UNCHANGED <<depth_file, contig_names, handles, withEntered, db, scan, exc>>
    /\ UNCHANGED <<headerVars, recordVars, assemblyVars, summaryVars, indexVars, poolVars, workflowVars>>

\* AbundanceDB.__init__ (lines 31-56), called by the with statement of
\* line 388.  open() precedes mmap(), which precedes the header processing;
\* an exception leaves what was opened before it open.
AbundanceDB_init ==
    /\ pc = "start"
    /\ depth_file.exists /\ contig_names # {}
    /\ LET e == InitException(depth_file.lines) IN
       IF depth_file.lines = <<>>
       THEN /\ handles' = [file |-> TRUE, mm |-> FALSE]
            /\ exc' = e
            /\ pc' = "done"
            /\ UNCHANGED db
       ELSE /\ handles' = [file |-> TRUE, mm |-> TRUE]
            /\ IF ~Decodable(depth_file.lines[1])
               THEN exc' = e /\ pc' = "done" /\ UNCHANGED db
               ELSE LET hf == HeaderFields(depth_file.lines[1]) IN
                    /\ db' = [header_fields |-> hf,
                              original_keys_to_extract |-> OriginalKeysToExtract(hf),
                              target_data_cols |-> TargetDataCols(hf)]
                    /\ exc' = e
                    /\ pc' = IF e = "none" THEN "constructed" ELSE "done"
    /\ UNCHANGED <<depth_file, contig_names, withEntered, scan, ret>>
    /\ UNCHANGED <<headerVars, recordVars, assemblyVars, summaryVars, indexVars, poolVars, workflowVars>>

\* __enter__ (line 97) and the head of get_abund_for_contigs (lines 63-67):
\* results = {}, contigs_left = copy, seek(0), skip the header
ScanBegin ==
    /\ pc = "constructed"
    /\ withEntered' = TRUE
    /\ scan' = [contigs_left |-> contig_names, results |-> EmptyDict, pos |-> 2]
    /\ pc' = "scan"
    /\ UNCHANGED <<depth_file, contig_names, handles, db, exc, ret>>
    /\ UNCHANGED <<headerVars, recordVars, assemblyVars, summaryVars, indexVars, poolVars, workflowVars>>

\* One iteration of the while loop (lines 69-93)
ScanLine ==
    /\ pc = "scan"
    /\ scan.contigs_left # {}
    /\ scan.pos <= Len(depth_file.lines)
    /\ LET line_bytes == depth_file.lines[scan.pos]
           matching == MatchingNames(scan.contigs_left, line_bytes)
           parsed == ParseLine(db, line_bytes)
       IN  IF matching = {}
           THEN /\ scan' = [scan EXCEPT !.pos = @ + 1]
                /\ UNCHANGED <<pc, exc>>
           ELSE IF parsed.exc = "none"
           THEN /\ \E found_name \in matching :
                      scan' = [contigs_left |-> scan.contigs_left \ {found_name},
                               results |-> DictSet(scan.results, found_name, parsed.dict),
                               pos |-> scan.pos + 1]
                /\ UNCHANGED <<pc, exc>>
           ELSE IF Caught(parsed.exc)
           THEN /\ scan' = [scan EXCEPT !.pos = @ + 1]
                /\ UNCHANGED <<pc, exc>>
           ELSE /\ exc' = parsed.exc
                /\ pc' = "exit"
                /\ scan' = [scan EXCEPT !.pos = @ + 1]
    /\ UNCHANGED <<depth_file, contig_names, handles, withEntered, db, ret>>
    /\ UNCHANGED <<headerVars, recordVars, assemblyVars, summaryVars, indexVars, poolVars, workflowVars>>

\* The loop condition fails (line 69): return results (line 95)
ScanReturn ==
    /\ pc = "scan"
    /\ scan.contigs_left = {} \/ scan.pos > Len(depth_file.lines)
    /\ ret' = scan.results
    /\ pc' = "exit"
    /\ UNCHANGED <<depth_file, contig_names, handles, withEntered, db, scan, exc>>
    /\ UNCHANGED <<headerVars, recordVars, assemblyVars, summaryVars, indexVars, poolVars, workflowVars>>

\* An asynchronous exception (KeyboardInterrupt) is raised during the scan:
\* no handler of get_abund_for_contigs catches it, so it leaves the with block.
ScanInterrupted ==
    /\ pc = "scan"
    /\ exc' = "KeyboardInterrupt"
    /\ pc' = "exit"
    /\ UNCHANGED <<depth_file, contig_names, handles, withEntered, db, scan, ret>>
    /\ UNCHANGED <<headerVars, recordVars, assemblyVars, summaryVars, indexVars, poolVars, workflowVars>>

\* __exit__ (line 98) on leaving the with block, by return or by exception
WithExit ==
    /\ pc = "exit"
    /\ handles' = close(handles)
    /\ pc' = "done"
    /\ UNCHANGED <<depth_file, contig_names, withEntered, db, scan, exc, ret>>
    /\ UNCHANGED <<headerVars, recordVars, assemblyVars, summaryVars, indexVars, poolVars, workflowVars>>

AbundNext ==
    \/ ReturnEmpty
    \/ AbundanceDB_init
    \/ ScanBegin
    \/ ScanLine
    \/ ScanReturn
    \/ ScanInterrupted
    \/ WithExit

AbundIdle ==
    /\ depth_file = [exists |-> FALSE, lines |-> <<>>]
    /\ contig_names = {}
    /\ pc = "idle"
    /\ handles = NoHandles
    /\ withEntered = FALSE
    /\ db = NoDB
    /\ scan = NoScan
    /\ exc = "none"
    /\ ret = EmptyDict

\* ------------------------------------------------------------------------
\* The header parser on one header
\* ------------------------------------------------------------------------

NotParsedStrict == [done |-> FALSE, exc |-> "none", header |-> NoHeader]
NotParsedLenient == [done |-> FALSE, isNone |-> FALSE, name |-> <<>>]

HeaderIdle ==
    /\ header_parts = NoParts
    /\ header_string = <<>>
    /\ strict = NotParsedStrict
    /\ lenient = NotParsedLenient

HeaderInit ==
    /\ header_parts \in HeaderParts
    /\ header_string = BuildHeader(header_parts)
    /\ strict = NotParsedStrict
    /\ lenient = NotParsedLenient

\* ContigID(header_string, {}): the strict parse
StrictParse ==
    /\ ~strict.done
    /\ LET r == ContigID_post_init(header_string)
       IN  strict' = [done |-> TRUE, exc |-> r.exc, header |-> r.header]
    /\ UNCHANGED <<header_parts, header_string, lenient>>
    /\ UNCHANGED <<abundVars, recordVars, assemblyVars, summaryVars, indexVars, poolVars, workflowVars>>

\* ContigID.parse_name_from_header(header_string): the lenient parse
LenientParse ==
    /\ ~lenient.done
    /\ LET r == parse_name_from_header(header_string)
       IN  lenient' = [done |-> TRUE, isNone |-> r.isNone, name |-> r.name]
    /\ UNCHANGED <<header_parts, header_string, strict>>
    /\ UNCHANGED <<abundVars, recordVars, assemblyVars, summaryVars, indexVars, poolVars, workflowVars>>

HeaderNext == StrictParse \/ LenientParse

\* ------------------------------------------------------------------------
\* The properties of one Mag
\* ------------------------------------------------------------------------

NoMagParts == [sample_code |-> <<>>, assembler_code |-> <<>>, binner |-> <<>>,
               cluster_id |-> <<>>]
NoMag == [name |-> <<>>, data |-> [Completeness |-> 0, Contamination |-> 0],
          contigids |-> <<>>]
NoProp == [op |-> "none", arg |-> 0, exc |-> "none", val |-> 0]

RecordIdle ==
    /\ mag_parts = NoMagParts
    /\ mag = NoMag
    /\ prop = NoProp

RecordInit ==
    /\ mag_parts \in MagNameParts
    /\ mag \in {[name |-> BuildMagName(mag_parts), data |-> d, contigids |-> c] :
                    d \in MagData, c \in SeqsUpTo(Contigs, MaxContigs)}
    /\ prop = NoProp

ReadSample ==
    /\ LET r == Mag_sample(mag.name)
       IN  prop' = [op |-> "sample", arg |-> 0, exc |-> r.exc, val |-> r.val]
    /\ UNCHANGED <<mag_parts, mag>>
    /\ UNCHANGED <<abundVars, headerVars, assemblyVars, summaryVars, indexVars, poolVars, workflowVars>>

ReadLongSample ==
    /\ LET r == Mag_long_sample(mag.name)
       IN  prop' = [op |-> "long_sample", arg |-> 0, exc |-> r.exc, val |-> r.val]
    /\ UNCHANGED <<mag_parts, mag>>
    /\ UNCHANGED <<abundVars, headerVars, assemblyVars, summaryVars, indexVars, poolVars, workflowVars>>

ReadBinner ==
    /\ LET r == Mag_binner(mag.name)
       IN  prop' = [op |-> "binner", arg |-> 0, exc |-> r.exc, val |-> r.val]
    /\ UNCHANGED <<mag_parts, mag>>
    /\ UNCHANGED <<abundVars, headerVars, assemblyVars, summaryVars, indexVars, poolVars, workflowVars>>

ReadAssembler ==
    /\ LET r == Mag_assembler(mag.name)
       IN  prop' = [op |-> "assembler", arg |-> 0, exc |-> r.exc, val |-> r.val]
    /\ UNCHANGED <<mag_parts, mag>>
    /\ UNCHANGED <<abundVars, headerVars, assemblyVars, summaryVars, indexVars, poolVars, workflowVars>>

ReadIsHighQuality ==
    /\ prop' = [op |-> "is_high_quality", arg |-> 0, exc |-> "none",
                val |-> Mag_is_high_quality(mag.data)]
    /\ UNCHANGED <<mag_parts, mag>>
    /\ UNCHANGED <<abundVars, headerVars, assemblyVars, summaryVars, indexVars, poolVars, workflowVars>>

\* contigids[i].depth_from_all_samples
ReadDepthFromAllSamples ==
    /\ \E i \in 1..Len(mag.contigids) :
          prop' = [op |-> "depth_from_all_samples", arg |-> i, exc |-> "none",
                   val |-> depth_from_all_samples(mag.contigids[i].abund_info)]
    /\ UNCHANGED <<mag_parts, mag>>
    /\ UNCHANGED <<abundVars, headerVars, assemblyVars, summaryVars, indexVars, poolVars, workflowVars>>

RecordNext ==
    \/ ReadSample
    \/ ReadLongSample
    \/ ReadBinner
    \/ ReadAssembler
    \/ ReadIsHighQuality
    \/ ReadDepthFromAllSamples

\* ------------------------------------------------------------------------
\* SummaryRepository (src/src/models.py, lines 275-315, and
\* src/magrefine/sessionmanager.py, lines 10-51)
\* ------------------------------------------------------------------------

\* A cell of a string column: a str, or None
PyStr(s) == [isNone |-> FALSE, str |-> s]
PyNone == [isNone |-> TRUE, str |-> <<>>]

\* Line 287: x.split("_")[2].split(".")[0]
binner_column(x) ==
    IF Len(Split(x, "_")) < 3
    THEN [exc |-> "IndexError", val |-> PyNone]
    ELSE [exc |-> "none", val |-> PyStr(Split(Split(x, "_")[3], ".")[1])]

\* src/magrefine/sessionmanager.py, lines 19-24: the code table is read
\* with .get(assembler_char, "unknown")
assembler_column_magrefine(x) ==
    IF Len(Split(x, "_")) < 2
    THEN [exc |-> "IndexError", val |-> PyNone]
    ELSE LET code == Split(x, "_")[2] IN
         [exc |-> "none",
          val |-> IF code \in AssemblerCodes THEN PyStr(AssemblerOf(code))
                  ELSE PyStr(<<"unknown">>)]

\* src/src/models.py, line 288: the code table is read with .get(code),
\* which gives None for a code that is not in it
assembler_column(x) ==
    IF Len(Split(x, "_")) < 2
    THEN [exc |-> "IndexError", val |-> PyNone]
    ELSE LET code == Split(x, "_")[2] IN
         [exc |-> "none",
          val |-> IF code \in AssemblerCodes THEN PyStr(AssemblerOf(code))
                  ELSE PyNone]

\* The two implementations of SummaryRepository
Implementations == {"models", "magrefine"}

\* Lines 285-288: read_csv(sep="\t", index_col=0) keeps the rows in file
\* order and does not look at the index; the two columns are then added
\* row by row
RECURSIVE SummaryRepository_post_init(_, _)
SummaryRepository_post_init(impl, rows) ==
    IF rows = <<>> THEN [exc |-> "none", summary |-> <<>>]
    ELSE LET row == Head(rows)
             binner == binner_column(row.id)
             assembler == IF impl = "models" THEN assembler_column(row.id)
                          ELSE assembler_column_magrefine(row.id)
             rest == SummaryRepository_post_init(impl, Tail(rows))
         IN  IF binner.exc # "none" THEN [exc |-> binner.exc, summary |-> <<>>]
             ELSE IF assembler.exc # "none"
             THEN [exc |-> assembler.exc, summary |-> <<>>]
             ELSE IF rest.exc # "none" THEN rest
             ELSE [exc |-> "none",
                   summary |-> <<[id            |-> row.id,
                                  Completeness  |-> row.Completeness,
                                  Contamination |-> row.Contamination,
                                  binner        |-> binner.val,
                                  assembler     |-> assembler.val]>>
                               \o rest.summary]

\* The columns of a row, without its index
ColumnsOf(row) ==
    [Completeness |-> row.Completeness, Contamination |-> row.Contamination,
     binner |-> row.binner, assembler |-> row.assembler]

NoColumns == [Completeness |-> 0, Contamination |-> 0, binner |-> PyNone,
              assembler |-> PyNone]

\* The positions of the rows of an index label
RowsOf(summary, mag_name) ==
    {i \in 1..Len(summary) : summary[i].id = mag_name}

\* A mutant of get_mag_data: an identifier that is not in the index gives
\* a row of defaults.
get_mag_data_default(summary, mag_name) ==
    LET at == RowsOf(summary, mag_name) IN
    IF at = {} THEN [exc |-> "none", kind |-> "row", val |-> NoColumns]
    ELSE [exc |-> "none", kind |-> "row",
          val |-> ColumnsOf(summary[CHOOSE i \in at : TRUE])]

\* SummaryRepository.get_mag_data (line 292): summary.loc[mag_name, :]
\* raises KeyError for a label that is not in the index, is a Series for a
\* label of one row, and a DataFrame for a label of several rows; to_dict()
\* of the Series is column -> value, to_dict() of the DataFrame is
\* column -> {label -> value}, in which the last row of the label remains.
get_mag_data(summary, mag_name) ==
    LET at == RowsOf(summary, mag_name) IN
    IF at = {} THEN [exc |-> "KeyError", kind |-> "none", val |-> NoColumns]
    ELSE IF Cardinality(at) = 1
    THEN [exc |-> "none", kind |-> "row",
          val |-> ColumnsOf(summary[CHOOSE i \in at : TRUE])]
    ELSE [exc |-> "none", kind |-> "nested",
          val |-> ColumnsOf(summary[CHOOSE i \in at : \A j \in at : j <= i])]

\* The columns a query may name
NumberColumns == {"Completeness", "Contamination"}
StringColumns == {"binner", "assembler"}

\* One comparison of a query on one row.  A cell that is None equals no
\* string.
EvalTerm(row, term) ==
    CASE term.col = "Completeness"  /\ term.op = ">=" -> row.Completeness >= term.num
      [] term.col = "Completeness"  /\ term.op = "<=" -> row.Completeness <= term.num
      [] term.col = "Contamination" /\ term.op = ">=" -> row.Contamination >= term.num
      [] term.col = "Contamination" /\ term.op = "<=" -> row.Contamination <= term.num
      [] term.col = "binner"    /\ term.op = "==" -> row.binner = PyStr(term.str)
      [] term.col = "assembler" /\ term.op = "==" -> row.assembler = PyStr(term.str)
      [] OTHER -> FALSE

\* The exception DataFrame.query raises for a query string, "none" if it
\* evaluates: a string that does not parse, a name that is no column, an
\* order comparison of a string column with a number
QueryException(q) ==
    IF ~q.parses THEN "SyntaxError"
    ELSE IF \E i \in 1..Len(q.terms) :
                q.terms[i].col \notin NumberColumns \cup StringColumns
    THEN "UndefinedVariableError"
    ELSE IF \E i \in 1..Len(q.terms) :
                q.terms[i].col \in StringColumns /\ q.terms[i].op # "=="
    THEN "TypeError"
    ELSE "none"

\* The rows of the frame that satisfy every comparison, in the frame's order
RECURSIVE FilterRows(_, _)
FilterRows(summary, q) ==
    IF summary = <<>> THEN <<>>
    ELSE LET rest == FilterRows(Tail(summary), q) IN
         IF \A i \in 1..Len(q.terms) : EvalTerm(Head(summary), q.terms[i])
         THEN <<Head(summary).id>> \o rest
         ELSE rest

\* summary.query(query_string).index.tolist() (line 307)
DataFrame_query(summary, q) ==
    IF QueryException(q) # "none"
    THEN [exc |-> QueryException(q), val |-> <<>>]
    ELSE [exc |-> "none", val |-> FilterRows(summary, q)]

\* A mutant of get_mags_by_query: the exception of the query is not caught.
get_mags_by_query_uncaught(summary, q) ==
    LET r == DataFrame_query(summary, q) IN
    [exc |-> r.exc, val |-> r.val, printed |-> <<>>]

\* SummaryRepository.get_mags_by_query (lines 296-310): the list, or on any
\* Exception a message on sys.stderr and the empty list
get_mags_by_query(summary, q) ==
    LET r == DataFrame_query(summary, q) IN
    IF r.exc = "none"
    THEN [exc |-> "none", val |-> r.val, printed |-> <<>>]
    ELSE [exc |-> "none", val |-> <<>>, printed |-> <<r.exc>>]

\* hq_query of line 314
HqQuery ==
    [parses |-> TRUE,
     terms |-> << [col |-> "Completeness", op |-> ">=",
                   num |-> HighQualityCompleteness * Scale, str |-> <<>>],
                  [col |-> "Contamination", op |-> "<=",
                   num |-> HighQualityContamination * Scale, str |-> <<>>] >>]

\* The elements of a list
Elements(l) == {l[i] : i \in 1..Len(l)}

\* list(mags) of line 367: the elements of the set, each once, in the
\* iteration order of the set, which is any order
ListsOf(S) ==
    {l \in [1..Cardinality(S) -> S] : \A i, j \in 1..Cardinality(S) :
                                          l[i] = l[j] => i = j}

\* ------------------------------------------------------------------------
\* SessionManager.get_mag (src/src/models.py, lines 343-358)
\* ------------------------------------------------------------------------

\* mag_dir / f"{mag_name}.fasta" (line 326)
FastaPath(mag_name) == mag_name \o <<".fasta">>

\* SessionManager._get_long_sample_name_from_mag_name (lines 404-406)
SM_get_long_sample_name_from_mag_name(mag_name) ==
    LET sample == Split(mag_name, "_")[1] IN
    IF Len(sample) < 2
    THEN [exc |-> "IndexError", val |-> <<>>]
    ELSE [exc |-> "none",
          val |-> <<"C", "0", "0", sample[2], "_">>
                  \o SubSeq(sample, 3, Min(4, Len(sample)))]

\* A mutant of SM_get_assembler_from_mag_name: every code is myloasm.
SM_get_assembler_always_myloasm(mag_name) ==
    IF Len(Split(mag_name, "_")) < 2
    THEN [exc |-> "IndexError", val |-> <<>>]
    ELSE [exc |-> "none", val |-> <<"myloasm">>]

\* SessionManager._get_assembler_from_mag_name (lines 408-410): .get(code,
\* "unknown")
SM_get_assembler_from_mag_name(mag_name) ==
    IF Len(Split(mag_name, "_")) < 2
    THEN [exc |-> "IndexError", val |-> <<>>]
    ELSE LET assembler_char == Split(mag_name, "_")[2] IN
         [exc |-> "none",
          val |-> IF assembler_char \in AssemblerCodes
                  THEN AssemblerOf(assembler_char)
                  ELSE <<"unknown">>]

\* abund_dir / f"{assembler}__{long_sample}.tsv" (line 383)
DepthFilePath(assembler, long_sample) ==
    assembler \o <<"__">> \o long_sample \o <<".tsv">>

\* A mutant of read_fasta_headers: the header lines come last first.
RECURSIVE read_fasta_headers_reversed(_)
read_fasta_headers_reversed(lines) ==
    IF lines = <<>> THEN <<>>
    ELSE LET line == Head(lines)
             rest == read_fasta_headers_reversed(Tail(lines))
         IN  IF line # <<>> /\ line[1] = ">"
             THEN rest \o <<Strip(line)>>
             ELSE rest

\* SessionManager._read_fasta_headers (lines 373-376):
\* [line.strip() for line in f if line.startswith(">")]
RECURSIVE read_fasta_headers(_)
read_fasta_headers(lines) ==
    IF lines = <<>> THEN <<>>
    ELSE LET line == Head(lines)
             rest == read_fasta_headers(Tail(lines))
         IN  IF line # <<>> /\ line[1] = ">"
             THEN <<Strip(line)>> \o rest
             ELSE rest

\* Lines 350-352: the set of the names the lenient parse gives; None and
\* the empty name are falsy and left out
HarvestNames(header_strings) ==
    {parse_name_from_header(header_strings[i]).name :
        i \in {j \in 1..Len(header_strings) :
                 LET r == parse_name_from_header(header_strings[j])
                 IN  ~r.isNone /\ r.name # <<>>}}

\* A mutant of create_contig_ids: a header the strict parse rejects is
\* skipped.
RECURSIVE create_contig_ids_skipping(_, _)
create_contig_ids_skipping(header_strings, all_abund_data) ==
    IF header_strings = <<>> THEN [exc |-> "none", contigids |-> <<>>]
    ELSE LET header == Head(header_strings)
             parsed == parse_name_from_header(header)
             abund_data == IF ~parsed.isNone /\ parsed.name # <<>>
                           THEN DictGetOrEmpty(all_abund_data, parsed.name)
                           ELSE EmptyDict
             made == ContigID_post_init(header)
             rest == create_contig_ids_skipping(Tail(header_strings), all_abund_data)
         IN  IF made.exc # "none" THEN rest
             ELSE [exc |-> "none",
                   contigids |-> <<[name |-> header, abund_info |-> abund_data,
                                    header |-> made.header]>> \o rest.contigids]

\* SessionManager._create_contig_ids (lines 391-399): one ContigID per
\* header, in order; the first ContigID that raises ends the loop
RECURSIVE create_contig_ids(_, _)
create_contig_ids(header_strings, all_abund_data) ==
    IF header_strings = <<>> THEN [exc |-> "none", contigids |-> <<>>]
    ELSE LET header == Head(header_strings)
             parsed == parse_name_from_header(header)
             abund_data == IF ~parsed.isNone /\ parsed.name # <<>>
                           THEN DictGetOrEmpty(all_abund_data, parsed.name)
                           ELSE EmptyDict
             made == ContigID_post_init(header)
         IN  IF made.exc # "none" THEN [exc |-> made.exc, contigids |-> <<>>]
             ELSE LET rest == create_contig_ids(Tail(header_strings), all_abund_data)
                  IN  IF rest.exc # "none" THEN rest
                      ELSE [exc |-> "none",
                            contigids |-> <<[name |-> header,
                                             abund_info |-> abund_data,
                                             header |-> made.header]>>
                                          \o rest.contigids]

\* Inputs: identifiers, the summary table, the sequence file, the depth file

MagNameA == <<"C", "1", "A", "3", "_", "A", "_", "metabat", ".", "872">>
MagNameX == <<"C", "1", "A", "3", "_", "X", "_", "metabat", ".", "872">>
MagNameAbsent == <<"C", "2", "B", "5", "_", "M", "_", "semibin", ".", "1">>
RequestedNames == {MagNameA, MagNameX, MagNameAbsent}

\* The summary table of the assembly, as loaded
SummaryRows ==
    SummaryRepository_post_init("models",
        << [id |-> MagNameA, Completeness |-> Dec(95, 0), Contamination |-> Dec(2, 0)],
           [id |-> MagNameX, Completeness |-> Dec(89, 9), Contamination |-> Dec(5, 1)] >>).summary

FastaHeader(name, length, hasDepth) ==
    [gt |-> <<">">>, name |-> name, length |-> length, circular |-> "no",
     hasDepth |-> hasDepth, depth |-> <<"5">>, duplicated |-> "no",
     suffix |-> <<>>]

\* The headers of a sequence file: two well-formed ones and one without
\* its depth segment
FastaHeaderParts ==
    { FastaHeader(ctgA, <<"1", "0">>, TRUE),
      FastaHeader(ctg10, <<"0", "7">>, TRUE),
      FastaHeader(ctgA, <<"1", "0">>, FALSE) }

\* Lines of a sequence file: the headers and a line of bases
FastaLines ==
    {BuildHeader(p) \o <<NL>> : p \in FastaHeaderParts} \cup {<<"ACGT", NL>>}

FastaFiles ==
    {[exists |-> FALSE, lines |-> <<>>]}
    \cup {[exists |-> TRUE, lines |-> l] : l \in SeqsUpTo(FastaLines, MaxContigs)}

\* The depth files of the assembly: with or without sample columns, lines
\* of ctgA and ctg10 and a line whose value is no float
AssemblyDepthFiles ==
    {[exists |-> FALSE, lines |-> <<>>], [exists |-> TRUE, lines |-> <<>>]}
    \cup {[exists |-> TRUE, lines |-> <<h>> \o d] :
              h \in {JoinTab(<<ColName, ColS1, ColS1Var>>),
                     JoinTab(<<ColName, <<"length">>, ColS1>>)},
              d \in SeqsUpTo({JoinTab(<<ctgA, <<"5", ".", "0">>, <<"0", ".", "1">>>>),
                              JoinTab(<<ctg10, <<"2", ".", "5">>, <<"0", ".", "2">>>>),
                              JoinTab(<<ctgA, <<"x">>, <<"0", ".", "1">>>>)},
                             MaxLines)}

\* The one depth file abund_dir may hold
AbundDirPath == DepthFilePath(<<"myloasm">>, <<"C", "0", "0", "1", "_", "A", "3">>)

NoAsm == [pc |-> "idle", mag_data |-> NoColumns, mag_fasta_path |-> <<>>,
          header_strings |-> <<>>, contig_names |-> {},
          abundance_data |-> EmptyDict]
NoAsmOut == [kind |-> "none", exc |-> "none", mag |-> <<>>]
NoWorld == [mag_name |-> <<>>, summary |-> <<>>,
            fasta |-> [exists |-> FALSE, lines |-> <<>>],
            abund_dir |-> [exists |-> FALSE, lines |-> <<>>]]

AssemblyIdle ==
    /\ world = NoWorld
    /\ asm = NoAsm
    /\ asm_out = NoAsmOut
    /\ fs_log = <<>>

AssemblyInit ==
    /\ world \in [mag_name : RequestedNames, summary : {SummaryRows},
                  fasta : FastaFiles, abund_dir : AssemblyDepthFiles]
    /\ asm = [NoAsm EXCEPT !.pc = "get_mag_data"]
    /\ asm_out = NoAsmOut
    /\ fs_log = <<>>

\* An exception leaves get_mag
AsmRaise(e) ==
    /\ asm_out' = [kind |-> "raised", exc |-> e, mag |-> <<>>]

\* Line 345, SummaryRepository.get_mag_data (line 292): summary.loc[mag_name]
GetMagData ==
    /\ asm.pc = "get_mag_data"
    /\ fs_log' = Append(fs_log, <<"summary.loc", world.mag_name>>)
    /\ LET mag_data == get_mag_data(world.summary, world.mag_name) IN
       IF mag_data.exc = "none"
       THEN /\ asm' = [asm EXCEPT !.pc = "find_mag_file",
                                  !.mag_data = mag_data.val]
            /\ UNCHANGED asm_out
       ELSE /\ asm' = [asm EXCEPT !.pc = "done"]
            /\ AsmRaise(mag_data.exc)
    /\ UNCHANGED world
    /\ UNCHANGED <<abundVars, headerVars, recordVars, summaryVars, indexVars, poolVars, workflowVars>>

\* Line 346, FilesystemLocator.find_mag_file (lines 325-329)
FindMagFile ==
    /\ asm.pc = "find_mag_file"
    /\ fs_log' = Append(fs_log, <<"exists", FastaPath(world.mag_name)>>)
    /\ IF world.fasta.exists
       THEN /\ asm' = [asm EXCEPT !.pc = "read_fasta_headers",
                                  !.mag_fasta_path = FastaPath(world.mag_name)]
            /\ UNCHANGED asm_out
       ELSE /\ asm' = [asm EXCEPT !.pc = "done"]
            /\ AsmRaise("FileNotFoundError")
    /\ UNCHANGED world
    /\ UNCHANGED <<abundVars, headerVars, recordVars, summaryVars, indexVars, poolVars, workflowVars>>

\* Lines 349-352: the header lines of the file and the names in them
ReadFastaHeaders ==
    /\ asm.pc = "read_fasta_headers"
    /\ fs_log' = Append(fs_log, <<"open", asm.mag_fasta_path>>)
    /\ LET header_strings == read_fasta_headers(world.fasta.lines)
       IN  asm' = [asm EXCEPT !.pc = "get_abundance_data",
                              !.header_strings = header_strings,
                              !.contig_names = HarvestNames(header_strings)]
    /\ UNCHANGED <<world, asm_out>>
    /\ UNCHANGED <<abundVars, headerVars, recordVars, summaryVars, indexVars, poolVars, workflowVars>>

\* Line 354 and lines 380-383 of _get_abundance_data: the path of the depth
\* file is put together and the lookup of lines 385-389 begins
CallGetAbundanceData ==
    /\ asm.pc = "get_abundance_data"
    /\ pc = "idle"
    /\ LET long_sample == SM_get_long_sample_name_from_mag_name(world.mag_name)
           assembler == SM_get_assembler_from_mag_name(world.mag_name)
       IN  IF long_sample.exc # "none" \/ assembler.exc # "none"
           THEN /\ asm' = [asm EXCEPT !.pc = "done"]
                /\ AsmRaise("IndexError")
                /\ UNCHANGED <<depth_file, contig_names, pc>>
           ELSE /\ asm' = [asm EXCEPT !.pc = "abundance"]
                /\ depth_file' =
                      IF DepthFilePath(assembler.val, long_sample.val) = AbundDirPath
                      THEN world.abund_dir
                      ELSE [exists |-> FALSE, lines |-> <<>>]
                /\ contig_names' = asm.contig_names
                /\ pc' = "start"
                /\ UNCHANGED asm_out
    /\ UNCHANGED <<world, fs_log>>
    /\ UNCHANGED <<handles, withEntered, db, scan, exc, ret>>
    /\ UNCHANGED <<headerVars, recordVars, summaryVars, indexVars, poolVars, workflowVars>>

\* _get_abundance_data has returned or raised (line 354)
AbundanceDataReturned ==
    /\ asm.pc = "abundance"
    /\ pc = "done"
    /\ IF exc # "none"
       THEN /\ asm' = [asm EXCEPT !.pc = "done"]
            /\ AsmRaise(exc)
       ELSE /\ asm' = [asm EXCEPT !.pc = "create_contig_ids",
                                  !.abundance_data = ret]
            /\ UNCHANGED asm_out
    /\ UNCHANGED <<world, fs_log>>
    /\ UNCHANGED <<abundVars, headerVars, recordVars, summaryVars, indexVars, poolVars, workflowVars>>

\* Lines 355-358: the ContigIDs are made and the Mag is returned
CreateContigIds ==
    /\ asm.pc = "create_contig_ids"
    /\ LET made == create_contig_ids(asm.header_strings, asm.abundance_data)
       IN  IF made.exc # "none"
           THEN AsmRaise(made.exc)
           ELSE asm_out' = [kind |-> "returned", exc |-> "none",
                            mag |-> [name |-> world.mag_name,
                                     data |-> asm.mag_data,
                                     fp |-> asm.mag_fasta_path,
                                     contigids |-> made.contigids]]
    /\ asm' = [asm EXCEPT !.pc = "done"]
    /\ UNCHANGED <<world, fs_log>>
    /\ UNCHANGED <<abundVars, headerVars, recordVars, summaryVars, indexVars, poolVars, workflowVars>>

AssemblyNext ==
    \/ GetMagData
    \/ FindMagFile
    \/ ReadFastaHeaders
    \/ CallGetAbundanceData
    \/ AbundanceDataReturned
    \/ CreateContigIds

\* ------------------------------------------------------------------------
\* One SummaryRepository and the calls made on it
\* ------------------------------------------------------------------------

\* Identifiers of summary rows; the last does not follow the convention
MagNameM == MagNameAbsent
MagNameShort == <<"bin", "7">>

SummaryIds == {MagNameA, MagNameX, MagNameM, MagNameShort}

SummaryFileRows ==
    [ id            : SummaryIds,
      Completeness  : {Dec(95, 0), Dec(80, 0)},
      Contamination : {Dec(2, 0)} ]

SummaryFiles == SeqsUpTo(SummaryFileRows, MaxRows)

\* Query strings: comparisons joined by "and"; a string that does not
\* parse; a call of __import__, which DataFrame.query looks up as a name that
\* is no column; an order comparison of a string column with a number
NumTerm(col, op, num) == [col |-> col, op |-> op, num |-> num, str |-> <<>>]
StrTerm(col, op, str) == [col |-> col, op |-> op, num |-> 0, str |-> str]

QueryAll == [parses |-> TRUE, terms |-> <<NumTerm("Completeness", ">=", 0)>>]
QueryMyloasm ==
    [parses |-> TRUE, terms |-> <<StrTerm("assembler", "==", <<"myloasm">>)>>]
QueryMetabat ==
    [parses |-> TRUE, terms |-> <<StrTerm("binner", "==", <<"metabat">>)>>]

Queries ==
    { HqQuery, QueryAll, QueryMyloasm, QueryMetabat,
      [parses |-> FALSE, terms |-> <<>>],
      [parses |-> TRUE, terms |-> <<StrTerm("__import__", "==", <<"os">>)>>],
      [parses |-> TRUE, terms |-> <<NumTerm("binner", ">=", 0)>>] }

\* restrict_to: None, or an iterable of identifiers
RestrictTo ==
    { [isNone |-> TRUE, ids |-> {}],
      [isNone |-> FALSE, ids |-> {MagNameA, <<"nonexistent_mag_name">>}] }

NoQuery == [parses |-> FALSE, terms |-> <<>>]
NoRepo == [impl |-> "models", loaded |-> FALSE, exc |-> "none", summary |-> <<>>]
NoCall == [n |-> 0, op |-> "none", query |-> NoQuery,
           restrict_to |-> [isNone |-> TRUE, ids |-> {}], mag_name |-> <<>>,
           exc |-> "none", kind |-> "none", val |-> <<>>, row |-> NoColumns]

SummaryIdle ==
    /\ summary_file = <<>>
    /\ repo = NoRepo
    /\ call = NoCall
    /\ stderr = <<>>

SummaryInit ==
    /\ summary_file \in SummaryFiles
    /\ repo \in {[NoRepo EXCEPT !.impl = i] : i \in Implementations}
    /\ call = NoCall
    /\ stderr = <<>>

\* SummaryRepository(summary_path): __post_init__ (lines 284-288)
LoadSummary ==
    /\ ~repo.loaded /\ repo.exc = "none"
    /\ LET r == SummaryRepository_post_init(repo.impl, summary_file)
       IN  repo' = [impl |-> repo.impl, loaded |-> r.exc = "none",
                    exc |-> r.exc, summary |-> r.summary]
    /\ UNCHANGED <<summary_file, call, stderr>>
    /\ UNCHANGED <<abundVars, headerVars, recordVars, assemblyVars, indexVars, poolVars, workflowVars>>

\* SummaryRepository.get_mags_by_query(query_string) (lines 296-310)
CallGetMagsByQuery ==
    /\ repo.loaded /\ call.n < MaxCalls
    /\ \E q \in Queries :
          LET r == get_mags_by_query(repo.summary, q) IN
          /\ call' = [NoCall EXCEPT !.n = call.n + 1, !.op = "get_mags_by_query",
                                    !.query = q, !.exc = r.exc, !.val = r.val]
          /\ stderr' = stderr \o r.printed
    /\ UNCHANGED <<summary_file, repo>>
    /\ UNCHANGED <<abundVars, headerVars, recordVars, assemblyVars, indexVars, poolVars, workflowVars>>

\* SummaryRepository.get_hq_mag_names() (lines 312-315)
CallGetHqMagNames ==
    /\ repo.loaded /\ call.n < MaxCalls
    /\ LET r == get_mags_by_query(repo.summary, HqQuery) IN
       /\ call' = [NoCall EXCEPT !.n = call.n + 1, !.op = "get_hq_mag_names",
                                 !.query = HqQuery, !.exc = r.exc, !.val = r.val]
       /\ stderr' = stderr \o r.printed
    /\ UNCHANGED <<summary_file, repo>>
    /\ UNCHANGED <<abundVars, headerVars, recordVars, assemblyVars, indexVars, poolVars, workflowVars>>

\* SessionManager.get_mags_by_query(query_string, restrict_to) (lines
\* 360-367): set(...), the intersection, list(...)
CallSessionGetMagsByQuery ==
    /\ repo.loaded /\ call.n < MaxCalls
    /\ \E q \in Queries, restrict_to \in RestrictTo :
          LET r == get_mags_by_query(repo.summary, q)
              mags == IF restrict_to.isNone THEN Elements(r.val)
                      ELSE Elements(r.val) \cap restrict_to.ids
          IN  /\ \E l \in ListsOf(mags) :
                    call' = [NoCall EXCEPT !.n = call.n + 1,
                                           !.op = "SessionManager.get_mags_by_query",
                                           !.query = q, !.restrict_to = restrict_to,
                                           !.exc = r.exc, !.val = l]
              /\ stderr' = stderr \o r.printed
    /\ UNCHANGED <<summary_file, repo>>
    /\ UNCHANGED <<abundVars, headerVars, recordVars, assemblyVars, indexVars, poolVars, workflowVars>>

\* SummaryRepository.get_mag_data(mag_name) (lines 291-292)
CallGetMagData ==
    /\ repo.loaded /\ call.n < MaxCalls
    /\ \E mag_name \in SummaryIds \cup {<<"nonexistent_mag_name">>} :
          LET r == get_mag_data(repo.summary, mag_name) IN
          call' = [NoCall EXCEPT !.n = call.n + 1, !.op = "get_mag_data",
                                 !.mag_name = mag_name, !.exc = r.exc,
                                 !.kind = r.kind, !.row = r.val]
    /\ UNCHANGED <<summary_file, repo, stderr>>
    /\ UNCHANGED <<abundVars, headerVars, recordVars, assemblyVars, indexVars, poolVars, workflowVars>>

SummaryNext ==
    \/ LoadSummary
    \/ CallGetMagsByQuery
    \/ CallGetHqMagNames
    \/ CallSessionGetMagsByQuery
    \/ CallGetMagData

\* ------------------------------------------------------------------------
\* Mag.average_coverage_total (src/src/models.py, lines 249-260)
\* ------------------------------------------------------------------------

\* The number of decimal digits of a natural number
RECURSIVE NumDigits(_)
NumDigits(x) == IF x < 10 THEN 1 ELSE 1 + NumDigits(x \div 10)

\* A float keeps a bounded number of significant digits: the result of an
\* operation is rounded to the nearest number that has them, a tie going to
\* the even one.  (binary64 keeps 53 binary digits; the model keeps
\* FloatDigits decimal ones, so that rounding happens on small numbers.)
RoundFloat(x) ==
    IF NumDigits(x) <= FloatDigits THEN x
    ELSE LET unit == 10 ^ (NumDigits(x) - FloatDigits)
             q == x \div unit
             r == x % unit
         IN  IF 2 * r > unit \/ (2 * r = unit /\ q % 2 = 1)
             THEN (q + 1) * unit
             ELSE q * unit

\* float + float, float * int
FloatAdd(a, b) == RoundFloat(a + b)
FloatMul(a, n) == RoundFloat(a * n)

\* A mutant of average_coverage_total_from: the plain mean of the depths.
RECURSIVE average_coverage_total_unweighted(_, _, _)
average_coverage_total_unweighted(contigids, total_bases, total_length) ==
    IF contigids = <<>>
    THEN IF total_length = 0
         THEN [exc |-> "ZeroDivisionError", num |-> 0, den |-> 0]
         ELSE [exc |-> "none", num |-> total_bases, den |-> total_length]
    ELSE LET c == Head(contigids) IN
         average_coverage_total_unweighted(Tail(contigids),
             FloatAdd(total_bases, depth_from_all_samples(c.abund_info)),
             total_length + 1)

\* The loop of lines 253-257 and the division of line 260, from the
\* accumulators total_bases and total_length: the quotient of a float by an
\* int, kept as numerator and denominator; dividing by 0 raises
\* ZeroDivisionError
RECURSIVE average_coverage_total_from(_, _, _)
average_coverage_total_from(contigids, total_bases, total_length) ==
    IF contigids = <<>>
    THEN IF total_length = 0
         THEN [exc |-> "ZeroDivisionError", num |-> 0, den |-> 0]
         ELSE [exc |-> "none", num |-> total_bases, den |-> total_length]
    ELSE LET c == Head(contigids) IN
         average_coverage_total_from(Tail(contigids),
             FloatAdd(total_bases,
                      FloatMul(depth_from_all_samples(c.abund_info), c.length)),
             total_length + c.length)

\* A mutant of average_coverage_total: the length of the first contig is
\* counted twice.
average_coverage_total_first_twice(contigids) ==
    IF contigids = <<>> THEN average_coverage_total_from(contigids, 0, 0)
    ELSE LET c == Head(contigids) IN
         average_coverage_total_from(Tail(contigids),
             FloatMul(depth_from_all_samples(c.abund_info), c.length),
             2 * c.length)

\* Mag.average_coverage_total: total_length = 0, total_bases = 0 (lines
\* 253-254), then the loop
average_coverage_total(contigids) == average_coverage_total_from(contigids, 0, 0)

\* Contigs of the coverage: the parsed length and the abundance dict
CoverageContigs ==
    { [length |-> 1,  abund_info |-> << <<SampleS1, Dec(10, 0)>> >>],
      [length |-> 1,  abund_info |-> << <<SampleS1, Dec(0, 4)>> >>],
      [length |-> 0,  abund_info |-> << <<SampleS1, Dec(7, 1)>> >>],
      [length |-> 10, abund_info |-> EmptyDict],
      [length |-> 20, abund_info |-> << <<SampleS1, Dec(1, 0)>>, <<SampleS2, Dec(2, 5)>> >>],
      [length |-> 2,  abund_info |-> << <<<<"C", "0", "0", "1", "_", "A", "3">>, Dec(3, 0)>> >>] }

CoverageInit ==
    /\ mag_parts = [sample_code |-> <<"C", "1", "A", "3">>,
                    assembler_code |-> <<"A">>, binner |-> <<"metabat">>,
                    cluster_id |-> <<"872">>]
    /\ mag \in {[name |-> BuildMagName(mag_parts),
                 data |-> [Completeness |-> Dec(95, 0), Contamination |-> Dec(2, 0)],
                 contigids |-> c] :
                    c \in SeqsUpTo(CoverageContigs, MaxCoverageContigs)}
    /\ prop = NoProp

\* mag.average_coverage_total
ReadAverageCoverageTotal ==
    /\ prop.op = "none"
    /\ LET r == average_coverage_total(mag.contigids)
       IN  prop' = [op |-> "average_coverage_total", arg |-> 0, exc |-> r.exc,
                    val |-> [num |-> r.num, den |-> r.den]]
    /\ UNCHANGED <<mag_parts, mag>>
    /\ UNCHANGED <<abundVars, headerVars, assemblyVars, summaryVars, indexVars, poolVars, workflowVars>>

\* ------------------------------------------------------------------------
\* Mag.average_coverage_per_sample (src/src/models.py, lines 244-247 and
\* 262-270)
\* ------------------------------------------------------------------------

\* The truth value of a str-or-None: None and "" are false
Truthy(samplename) == ~samplename.isNone /\ samplename.str # <<>>

\* A mutant of get_depth_per_contig: a missing sample counts as depth 0.
get_depth_per_contig_zero_fill(abund_info, samplename) ==
    IF Truthy(samplename)
    THEN IF samplename.str \in DictKeys(abund_info)
         THEN [exc |-> "none", val |-> DictGet(abund_info, samplename.str)]
         ELSE [exc |-> "none", val |-> 0]
    ELSE [exc |-> "none", val |-> depth_from_all_samples(abund_info)]

\* Mag.get_depth_per_contig (lines 244-247): the dict is subscripted when
\* samplename is true, and the depth of all samples is returned otherwise
get_depth_per_contig(abund_info, samplename) ==
    IF Truthy(samplename)
    THEN IF samplename.str \in DictKeys(abund_info)
         THEN [exc |-> "none", val |-> DictGet(abund_info, samplename.str)]
         ELSE [exc |-> "KeyError", val |-> 0]
    ELSE [exc |-> "none", val |-> depth_from_all_samples(abund_info)]

\* The list comprehension of lines 265-266 from contig i on: the depths, or
\* the first exception
RECURSIVE DepthValues(_, _, _)
DepthValues(contigids, samplename, i) ==
    IF i > Len(contigids) THEN [exc |-> "none", vals |-> <<>>]
    ELSE LET d == get_depth_per_contig(contigids[i].abund_info, samplename)
             rest == DepthValues(contigids, samplename, i + 1)
         IN  IF d.exc # "none" THEN [exc |-> d.exc, vals |-> <<>>]
             ELSE IF rest.exc # "none" THEN rest
             ELSE [exc |-> "none", vals |-> <<d.val>> \o rest.vals]

\* Lines 267-269: total_bases += v[1] * v[2] over the first k values
RECURSIVE TotalBases(_, _, _)
TotalBases(contigids, vals, k) ==
    IF k = 0 THEN 0
    ELSE FloatAdd(TotalBases(contigids, vals, k - 1),
                  FloatMul(vals[k], contigids[k].length))

\* sum([v[1] for v in values]) over the first k contigs
RECURSIVE SumLengths(_, _)
SumLengths(contigids, k) ==
    IF k = 0 THEN 0 ELSE SumLengths(contigids, k - 1) + contigids[k].length

\* Mag.average_coverage_per_sample (lines 262-270)
average_coverage_per_sample(name, contigids, samplename) ==
    LET long_sample == Mag_long_sample(name) IN
    IF samplename.isNone /\ long_sample.exc # "none"
    THEN [exc |-> long_sample.exc, num |-> 0, den |-> 0]
    ELSE LET s == IF samplename.isNone THEN PyStr(long_sample.val)
                  ELSE samplename
             values == DepthValues(contigids, s, 1)
             n == Len(contigids)
         IN  IF values.exc # "none"
             THEN [exc |-> values.exc, num |-> 0, den |-> 0]
             ELSE IF SumLengths(contigids, n) = 0
             THEN [exc |-> "ZeroDivisionError", num |-> 0, den |-> 0]
             ELSE [exc |-> "none",
                   num |-> TotalBases(contigids, values.vals, n),
                   den |-> SumLengths(contigids, n)]

\* The sample names handed to average_coverage_per_sample: none, the empty
\* string, a sample of the depth file, the long sample of the Mag, a sample
\* of no contig
LongSampleA == <<"C", "0", "0", "1", "_", "A", "3">>
SampleNames ==
    {PyNone, PyStr(<<>>), PyStr(SampleS1), PyStr(SampleS2), PyStr(LongSampleA),
     PyStr(<<"S9">>)}

\* mag.average_coverage_per_sample(samplename)
ReadAverageCoveragePerSample ==
    /\ prop.op = "none"
    /\ \E samplename \in SampleNames :
          LET r == average_coverage_per_sample(mag.name, mag.contigids, samplename)
          IN  prop' = [op |-> "average_coverage_per_sample", arg |-> samplename,
                       exc |-> r.exc, val |-> [num |-> r.num, den |-> r.den]]
    /\ UNCHANGED <<mag_parts, mag>>
    /\ UNCHANGED <<abundVars, headerVars, assemblyVars, summaryVars, indexVars, poolVars, workflowVars>>

CoverageNext == ReadAverageCoverageTotal \/ ReadAverageCoveragePerSample

\* ------------------------------------------------------------------------
\* One AbundanceDB and the get_abund_for_contigs calls made on it
\* (src/src/models.py, lines 31-95)
\* ------------------------------------------------------------------------

\* contigs_left is a set: `for name in contigs_left` visits its members in
\* an order the program does not choose
IterationOrders(S) ==
    {order \in [1..Cardinality(S) -> S] :
        \A i, j \in 1..Cardinality(S) : order[i] = order[j] => i = j}

\* The first position of the order whose name occurs in the line, 0 if none
FirstMatch(order, line_bytes) ==
    IF \E i \in 1..Len(order) : Contains(line_bytes, order[i])
    THEN CHOOSE i \in 1..Len(order) :
             /\ Contains(line_bytes, order[i])
             /\ \A j \in 1..(i - 1) : ~Contains(line_bytes, order[j])
    ELSE 0

\* A mutant of find_name: the loop has no break, the last match is kept.
find_name_no_break(order, line_bytes) ==
    IF \E i \in 1..Len(order) : Contains(line_bytes, order[i])
    THEN LET k == CHOOSE i \in 1..Len(order) :
                      /\ Contains(line_bytes, order[i])
                      /\ \A j \in (i + 1)..Len(order) : ~Contains(line_bytes, order[j])
         IN  [found |-> PyStr(order[k]), tested |-> order]
    ELSE [found |-> PyNone, tested |-> order]

\* Lines 70-75: found_name = None; the names are tested in the order of the
\* iteration until one occurs in the line: [found, tested]
find_name(order, line_bytes) ==
    LET k == FirstMatch(order, line_bytes) IN
    IF k = 0 THEN [found |-> PyNone, tested |-> order]
    ELSE [found |-> PyStr(order[k]), tested |-> SubSeq(order, 1, k)]

\* A mutant of LoopContinues: lines are read until the end of the file.
LoopContinuesToEnd(contigs_left, pos, nlines) == pos <= nlines

\* Line 69: while contigs_left and (line_bytes := self._mm.readline());
\* readline is not called once contigs_left is empty
LoopContinues(contigs_left, pos, nlines) ==
    contigs_left # {} /\ pos <= nlines

\* A mutant of mm_seek: the position of the mapped view is left where it is.
mm_seek_nowhere(pos, offset) == pos

\* self._mm.seek(0) (lines 40 and 66): positions are line numbers, and
\* seek(0) goes to line 1
mm_seek(pos, offset) == offset + 1

\* self._mm.readline() moves past one line, if there is one
mm_readline(pos, nlines) == IF pos <= nlines THEN pos + 1 ELSE pos

\* A mutant of set_copy: contigs_left is the caller's set itself.
set_alias(caller_set, contigs_left) == contigs_left

\* Line 64: contigs_left = contig_names_to_find.copy(); the caller's set is
\* another object than contigs_left and keeps its members
set_copy(caller_set, contigs_left) == caller_set

\* Depth files an AbundanceDB is opened on: a header of two samples and up
\* to MaxLines data lines (a full line; a line of ctg10, in which ctg1
\* occurs; a value that is no float; a line of fewer fields than the
\* header), and a header without sample columns
IndexHeader == JoinTab(<<ColName, ColS1, ColS1Var, ColS2, ColS2Var>>)
IndexDataLines ==
    { JoinTab(<<ctgA, <<"1", ".", "0">>, <<"0", ".", "1">>,
                <<"2", ".", "0">>, <<"0", ".", "5">>>>),
      JoinTab(<<ctg10, <<"2", ".", "5">>, <<"0", ".", "2">>,
                <<"7", ".", "0">>, <<"0", ".", "1">>>>),
      JoinTab(<<ctg10, <<"x">>, <<"0", ".", "2">>,
                <<"7", ".", "0">>, <<"0", ".", "1">>>>),
      JoinTab(<<ctgA, <<"5", ".", "0">>, <<"0", ".", "1">>>>) }
IndexFiles ==
    {<<IndexHeader>> \o d : d \in SeqsUpTo(IndexDataLines, MaxLines)}
    \cup {<<JoinTab(<<ColName, <<"length">>>>)>>}

NoIndex == [constructed |-> FALSE, exc |-> "none", header_fields |-> <<>>,
            original_keys_to_extract |-> <<>>, target_data_cols |-> <<>>,
            mm_pos |-> 0, calls |-> 0]
NoResolve == [active |-> FALSE, returned |-> FALSE, requested |-> {},
              caller_set |-> {}, contigs_left |-> {}, results |-> EmptyDict,
              read |-> <<>>, tested |-> <<>>, found |-> PyNone,
              outcome |-> "none", exc |-> "none", ret |-> EmptyDict]

IndexIdle ==
    /\ index_file = <<>>
    /\ index = NoIndex
    /\ resolve = NoResolve

IndexInit ==
    /\ index_file \in IndexFiles
    /\ index = NoIndex
    /\ resolve = NoResolve

\* AbundanceDB(depth_file_path) (lines 31-56)
OpenIndex ==
    /\ ~index.constructed /\ index.exc = "none"
    /\ LET e == InitException(index_file)
           hf == HeaderFields(index_file[1])
       IN  index' = [constructed |-> e = "none", exc |-> e,
                     header_fields |-> hf,
                     original_keys_to_extract |-> OriginalKeysToExtract(hf),
                     target_data_cols |-> TargetDataCols(hf),
                     mm_pos |-> mm_readline(mm_seek(0, 0), Len(index_file)),
                     calls |-> 0]
    /\ UNCHANGED <<index_file, resolve>>
    /\ UNCHANGED <<abundVars, headerVars, recordVars, assemblyVars, summaryVars>>
    /\ UNCHANGED <<poolVars, workflowVars>>

\* The head of get_abund_for_contigs (lines 63-67) on a set of names
ResolveBegin ==
    /\ index.constructed /\ ~resolve.active
    /\ index.calls < MaxCalls
    /\ \E contig_names_to_find \in SUBSET ContigNames :
          resolve' = [NoResolve EXCEPT !.active = TRUE,
                                       !.requested = contig_names_to_find,
                                       !.caller_set = contig_names_to_find,
                                       !.contigs_left = contig_names_to_find]
    /\ index' = [index EXCEPT
                    !.mm_pos = mm_readline(mm_seek(@, 0), Len(index_file)),
                    !.calls = @ + 1]
    /\ UNCHANGED index_file
    /\ UNCHANGED <<abundVars, headerVars, recordVars, assemblyVars, summaryVars>>
    /\ UNCHANGED <<poolVars, workflowVars>>

\* One iteration of the while loop (lines 69-93)
ResolveLine ==
    /\ resolve.active
    /\ LoopContinues(resolve.contigs_left, index.mm_pos, Len(index_file))
    /\ \E order \in IterationOrders(resolve.contigs_left) :
          LET line_bytes == index_file[index.mm_pos]
              f == find_name(order, line_bytes)
              parsed == ParseLine(index, line_bytes)
              seen == [resolve EXCEPT !.read = Append(@, index.mm_pos),
                                      !.tested = f.tested,
                                      !.found = f.found]
          IN  IF ~Truthy(f.found)
              THEN resolve' = [seen EXCEPT !.outcome = "no match"]
              ELSE IF parsed.exc = "none"
              THEN LET left == resolve.contigs_left \ {f.found.str} IN
                   resolve' = [seen EXCEPT
                       !.results = DictSet(@, f.found.str, parsed.dict),
                       !.contigs_left = left,
                       !.caller_set = set_copy(@, left),
                       !.outcome = "resolved"]
              ELSE IF Caught(parsed.exc)
              THEN resolve' = [seen EXCEPT !.outcome = "skipped"]
              ELSE resolve' = [seen EXCEPT !.outcome = "raised",
                                           !.exc = parsed.exc,
                                           !.active = FALSE]
    /\ index' = [index EXCEPT !.mm_pos = mm_readline(@, Len(index_file))]
    /\ UNCHANGED index_file
    /\ UNCHANGED <<abundVars, headerVars, recordVars, assemblyVars, summaryVars>>
    /\ UNCHANGED <<poolVars, workflowVars>>

\* The loop condition is false (line 69): return results (line 95)
ResolveReturn ==
    /\ resolve.active
    /\ ~LoopContinues(resolve.contigs_left, index.mm_pos, Len(index_file))
    /\ resolve' = [resolve EXCEPT !.active = FALSE, !.returned = TRUE,
                                  !.ret = resolve.results]
    /\ UNCHANGED <<index_file, index>>
    /\ UNCHANGED <<abundVars, headerVars, recordVars, assemblyVars, summaryVars>>
    /\ UNCHANGED <<poolVars, workflowVars>>

IndexNext ==
    \/ OpenIndex
    \/ ResolveBegin
    \/ ResolveLine
    \/ ResolveReturn

\* ------------------------------------------------------------------------
\* run_workflow (src/execute_workflow.py, lines 101-167)
\* ------------------------------------------------------------------------

\* mags_to_process[i:i + chunk_size], i counted from 0
Slice(mags_to_process, i, chunk_size) ==
    SubSeq(mags_to_process, i + 1, Min(i + chunk_size, Len(mags_to_process)))

\* A mutant of chunks_of: the chunks come last first.
chunks_of_reversed(mags_to_process, chunk_size) ==
    IF chunk_size < 0 THEN <<>>
    ELSE LET n == (Len(mags_to_process) + chunk_size - 1) \div chunk_size
         IN  [k \in 1..n |->
                 Slice(mags_to_process, (n - k) * chunk_size, chunk_size)]

\* Lines 111-114: one slice per i of range(0, len(mags_to_process),
\* chunk_size); the range of a negative step from 0 upwards is empty (a step
\* of 0 raises, see StartWorkflow)
chunks_of(mags_to_process, chunk_size) ==
    IF chunk_size < 0 THEN <<>>
    ELSE LET n == (Len(mags_to_process) + chunk_size - 1) \div chunk_size
         IN  [k \in 1..n |->
                 Slice(mags_to_process, (k - 1) * chunk_size, chunk_size)]

\* A mutant of run_failed: the return code is not looked at.
run_failed_never(returncode) == FALSE

\* Line 160: if result.returncode != 0
run_failed(returncode) == returncode # 0

\* The return codes of a snakemake process
ReturnCodes == {0, 1}

\* The lists select_mags returns are sorted and hold no name twice (line
\* 98); a MAG is named by its rank among the MaxMags names
MagLists ==
    {l \in SeqsUpTo(1..MaxMags, MaxMags) :
        \A i \in 1..(Len(l) - 1) : l[i] < l[i + 1]}

\* --chunk-size is any int
ChunkSizes == {-1, 0, 1, 2}

NoWorkflow == [pc |-> "idle", mags_to_process |-> <<>>, chunk_size |-> 1,
               has_cluster_config |-> TRUE, dry_run |-> FALSE,
               chunks |-> <<>>, i |-> 0, config |-> <<>>, issued |-> <<>>,
               exc |-> "none", exit |-> -1]

WorkflowIdle == wf = NoWorkflow

WorkflowInit ==
    \E m \in MagLists, c \in ChunkSizes, k \in BOOLEAN, d \in BOOLEAN :
        wf = [NoWorkflow EXCEPT !.pc = "start", !.mags_to_process = m,
                                !.chunk_size = c, !.has_cluster_config = k,
                                !.dry_run = d]

\* Lines 107-115: nothing to run, or the chunks are cut
StartWorkflow ==
    /\ wf.pc = "start"
    /\ IF wf.mags_to_process = <<>>
       THEN wf' = [wf EXCEPT !.pc = "done", !.exit = 0]
       ELSE IF wf.chunk_size = 0
       THEN wf' = [wf EXCEPT !.pc = "done", !.exc = "ValueError", !.exit = 1]
       ELSE wf' = [wf EXCEPT !.pc = "chunk", !.i = 1,
                       !.chunks = chunks_of(wf.mags_to_process, wf.chunk_size)]
    /\ UNCHANGED <<abundVars, headerVars, recordVars, assemblyVars, summaryVars>>
    /\ UNCHANGED <<indexVars, poolVars>>

\* Lines 117-127: the next chunk is written to config_snakefile.yaml
WriteConfig ==
    /\ wf.pc = "chunk"
    /\ wf.i <= Len(wf.chunks)
    /\ wf' = [wf EXCEPT !.pc = "unlock", !.config = wf.chunks[wf.i]]
    /\ UNCHANGED <<abundVars, headerVars, recordVars, assemblyVars, summaryVars>>
    /\ UNCHANGED <<indexVars, poolVars>>

\* Lines 137-139: subprocess.run(unlock_cmd, check=True) raises
\* CalledProcessError on a return code other than 0
Unlock ==
    /\ wf.pc = "unlock"
    /\ \E returncode \in ReturnCodes :
          LET cmd == [kind |-> "unlock", chunk |-> wf.i, mags |-> wf.config,
                      dryrun |-> FALSE, returncode |-> returncode]
          IN  IF returncode # 0
              THEN wf' = [wf EXCEPT !.issued = Append(@, cmd), !.pc = "done",
                                    !.exc = "CalledProcessError", !.exit = 1]
              ELSE wf' = [wf EXCEPT !.issued = Append(@, cmd), !.pc = "run"]
    /\ UNCHANGED <<abundVars, headerVars, recordVars, assemblyVars, summaryVars>>
    /\ UNCHANGED <<indexVars, poolVars>>

\* Lines 142-164: the run command is built (base_config["cluster_config"]
\* is subscripted) and run; a return code other than 0 ends the program
\* with sys.exit(1)
Run ==
    /\ wf.pc = "run"
    /\ IF ~wf.has_cluster_config
       THEN wf' = [wf EXCEPT !.pc = "done", !.exc = "KeyError", !.exit = 1]
       ELSE \E returncode \in ReturnCodes :
               LET cmd == [kind |-> "run", chunk |-> wf.i, mags |-> wf.config,
                           dryrun |-> wf.dry_run, returncode |-> returncode]
               IN  IF run_failed(returncode)
                   THEN wf' = [wf EXCEPT !.issued = Append(@, cmd),
                                         !.pc = "done", !.exc = "SystemExit",
                                         !.exit = 1]
                   ELSE wf' = [wf EXCEPT !.issued = Append(@, cmd),
                                         !.pc = "chunk", !.i = @ + 1]
    /\ UNCHANGED <<abundVars, headerVars, recordVars, assemblyVars, summaryVars>>
    /\ UNCHANGED <<indexVars, poolVars>>

\* Lines 166-167: every chunk is done, run_workflow returns
FinishWorkflow ==
    /\ wf.pc = "chunk"
    /\ wf.i > Len(wf.chunks)
    /\ wf' = [wf EXCEPT !.pc = "done", !.exit = 0]
    /\ UNCHANGED <<abundVars, headerVars, recordVars, assemblyVars, summaryVars>>
    /\ UNCHANGED <<indexVars, poolVars>>

WorkflowNext ==
    \/ StartWorkflow
    \/ WriteConfig
    \/ Unlock
    \/ Run
    \/ FinishWorkflow

\* ------------------------------------------------------------------------
\* get_mag in the worker processes of a pool (src/execute_workflow.py,
\* lines 77-87)
\* ------------------------------------------------------------------------

\* The locals of one get_mag call in its own process
NewWorker(mag_name) ==
    [mag_name |-> mag_name, pc |-> "get_mag_data", mag_data |-> NoColumns,
     mag_fasta_path |-> <<>>, header_strings |-> <<>>, contig_names |-> {},
     handles |-> NoHandles, withEntered |-> FALSE, db |-> NoDB, mm_pos |-> 0,
     contigs_left |-> {}, results |-> EmptyDict, abundance_data |-> EmptyDict,
     out |-> NoAsmOut]

\* An exception leaves get_mag
Raised(me, e) ==
    [me EXCEPT !.pc = "done",
               !.out = [kind |-> "raised", exc |-> e, mag |-> <<>>]]

\* Lines 380-383: the depth file of the MAG in abund_dir
DepthFileOf(shared, mag_name) ==
    LET long_sample == SM_get_long_sample_name_from_mag_name(mag_name)
        assembler == SM_get_assembler_from_mag_name(mag_name)
    IN  IF long_sample.exc # "none" \/ assembler.exc # "none"
        THEN [exc |-> "IndexError", file |-> [exists |-> FALSE, lines |-> <<>>]]
        ELSE [exc |-> "none",
              file |-> IF DepthFilePath(assembler.val, long_sample.val) = AbundDirPath
                       THEN shared.abund_dir
                       ELSE [exists |-> FALSE, lines |-> <<>>]]

\* A mutant of own_position: every process reads at the position of the
\* mapped view that has got furthest, as if one view were shared.
furthest_position(positions, w) ==
    positions[CHOOSE v \in DOMAIN positions :
                 \A u \in DOMAIN positions : positions[u] <= positions[v]]

\* The mapped view a process reads is the one its own AbundanceDB opened
\* (lines 36-37 run in the process that called get_mag)
own_position(positions, w) == positions[w]

\* Lines 385-389 up to the head of get_abund_for_contigs: return {}, or
\* construct the AbundanceDB and enter the with block
open_depth_file(me, depth_file_of) ==
    IF depth_file_of.exc # "none" THEN Raised(me, depth_file_of.exc)
    ELSE LET file == depth_file_of.file IN
    IF ~file.exists \/ me.contig_names = {}
    THEN [me EXCEPT !.pc = "create_contig_ids", !.abundance_data = EmptyDict]
    ELSE IF file.lines = <<>>
    THEN [Raised(me, InitException(file.lines)) EXCEPT
              !.handles = [file |-> TRUE, mm |-> FALSE]]
    ELSE IF InitException(file.lines) # "none"
    THEN [Raised(me, InitException(file.lines)) EXCEPT
              !.handles = [file |-> TRUE, mm |-> TRUE]]
    ELSE LET hf == HeaderFields(file.lines[1]) IN
         [me EXCEPT !.pc = "scan",
                    !.handles = [file |-> TRUE, mm |-> TRUE],
                    !.withEntered = TRUE,
                    !.db = [header_fields |-> hf,
                            original_keys_to_extract |-> OriginalKeysToExtract(hf),
                            target_data_cols |-> TargetDataCols(hf)],
                    !.mm_pos = mm_readline(mm_seek(0, 0), Len(file.lines)),
                    !.contigs_left = me.contig_names,
                    !.results = EmptyDict]

\* One iteration of the while loop of lines 69-93 at position pos of the
\* mapped view, or the return of line 95: the possible next locals
scan_step(me, lines, pos) ==
    IF ~LoopContinues(me.contigs_left, pos, Len(lines))
    THEN {[me EXCEPT !.pc = "exit", !.abundance_data = me.results]}
    ELSE LET line_bytes == lines[pos]
             matching == MatchingNames(me.contigs_left, line_bytes)
             parsed == ParseLine(me.db, line_bytes)
             moved == [me EXCEPT !.mm_pos = mm_readline(pos, Len(lines))]
         IN  IF matching = {} THEN {moved}
             ELSE IF parsed.exc = "none"
             THEN {[moved EXCEPT
                       !.contigs_left = me.contigs_left \ {found_name},
                       !.results = DictSet(me.results, found_name, parsed.dict)] :
                      found_name \in matching}
             ELSE IF Caught(parsed.exc) THEN {moved}
             ELSE {[moved EXCEPT !.pc = "exit",
                       !.out = [kind |-> "raised", exc |-> parsed.exc,
                                mag |-> <<>>]]}

\* Line 345: the row of the MAG in the summary, or KeyError
get_mag_data_step(shared, me) ==
    LET mag_data == get_mag_data(shared.summary, me.mag_name) IN
    IF mag_data.exc # "none" THEN {Raised(me, mag_data.exc)}
    ELSE {[me EXCEPT !.pc = "find_mag_file", !.mag_data = mag_data.val]}

\* Line 346: the path of the fasta file, or FileNotFoundError
find_mag_file_step(shared, me) ==
    IF ~shared.fasta[me.mag_name].exists
    THEN {Raised(me, "FileNotFoundError")}
    ELSE {[me EXCEPT !.pc = "read_fasta_headers",
                     !.mag_fasta_path = FastaPath(me.mag_name)]}

\* Lines 349-352: the header lines and the contig names parsed from them
read_fasta_headers_step(shared, me) ==
    LET header_strings == read_fasta_headers(shared.fasta[me.mag_name].lines)
    IN  {[me EXCEPT !.pc = "get_abundance_data",
                    !.header_strings = header_strings,
                    !.contig_names = HarvestNames(header_strings)]}

\* Line 98: __exit__ closes the mapped view and the handle of the process
with_exit_step(me) ==
    IF me.out.kind = "raised"
    THEN {[me EXCEPT !.pc = "done", !.handles = close(me.handles)]}
    ELSE {[me EXCEPT !.pc = "create_contig_ids", !.handles = close(me.handles)]}

\* Lines 355-358: the ContigIDs and the Mag that get_mag returns
create_contig_ids_step(me) ==
    LET made == create_contig_ids(me.header_strings, me.abundance_data)
    IN  IF made.exc # "none" THEN {Raised(me, made.exc)}
        ELSE {[me EXCEPT !.pc = "done",
                  !.out = [kind |-> "returned", exc |-> "none",
                           mag |-> [name |-> me.mag_name,
                                    data |-> me.mag_data,
                                    fp |-> me.mag_fasta_path,
                                    contigids |-> made.contigids]]]}

\* get_mag (lines 343-358), one step of it from the position me.pc, reading
\* the mapped view at pos: the possible next locals
get_mag_step(shared, me, pos) ==
    CASE me.pc = "get_mag_data" -> get_mag_data_step(shared, me)
      [] me.pc = "find_mag_file" -> find_mag_file_step(shared, me)
      [] me.pc = "read_fasta_headers" -> read_fasta_headers_step(shared, me)
      [] me.pc = "get_abundance_data" ->
            {open_depth_file(me, DepthFileOf(shared, me.mag_name))}
      [] me.pc = "scan" ->
            scan_step(me, DepthFileOf(shared, me.mag_name).file.lines, pos)
      [] me.pc = "exit" -> with_exit_step(me)
      [] me.pc = "create_contig_ids" -> create_contig_ids_step(me)
      [] OTHER -> {}

\* The identifiers the pool is given, and what the processes find
PoolNames == {MagNameA, MagNameX}
PoolFastaFiles ==
    { [exists |-> TRUE,
       lines |-> << BuildHeader(FastaHeader(ctgA, <<"1", "0">>, TRUE)) \o <<NL>>,
                    BuildHeader(FastaHeader(ctg10, <<"0", "7">>, TRUE)) \o <<NL>> >>],
      [exists |-> TRUE,
       lines |-> << BuildHeader(FastaHeader(ctgA, <<"1", "0">>, FALSE)) \o <<NL>> >>],
      [exists |-> FALSE, lines |-> <<>>] }
PoolDepthFiles ==
    { [exists |-> TRUE,
       lines |-> << JoinTab(<<ColName, ColS1, ColS1Var>>),
                    JoinTab(<<ctg10, <<"2", ".", "5">>, <<"0", ".", "2">>>>),
                    JoinTab(<<ctgA, <<"5", ".", "0">>, <<"0", ".", "1">>>>) >>],
      [exists |-> TRUE,
       lines |-> << JoinTab(<<ColName, ColS1, ColS1Var>>),
                    JoinTab(<<ctgA, <<"x">>, <<"0", ".", "1">>>>),
                    JoinTab(<<ctgA, <<"5", ".", "0">>, <<"0", ".", "1">>>>) >>],
      [exists |-> TRUE, lines |-> <<JoinTab(<<ColName, <<"length">>, ColS1>>)>>] }

NoPoolWorld == [summary |-> <<>>, fasta |-> <<>>,
                abund_dir |-> [exists |-> FALSE, lines |-> <<>>]]

PoolIdle ==
    /\ pool_world = NoPoolWorld
    /\ workers = <<>>

\* executor.map(worker_func, candidate_mag_names) (lines 77-87): one
\* get_mag per name, each in a worker process
PoolInit ==
    /\ pool_world \in [summary : {SummaryRows},
                       fasta : [PoolNames -> PoolFastaFiles],
                       abund_dir : PoolDepthFiles]
    /\ \E candidate_mag_names \in [1..MaxWorkers -> PoolNames] :
          workers = [w \in 1..MaxWorkers |-> NewWorker(candidate_mag_names[w])]

\* The positions of the mapped views of the processes
Positions == [w \in DOMAIN workers |-> workers[w].mm_pos]

\* The process w, at the position at of get_mag, takes one of the steps nexts
WorkerTakesStep(w, at, nexts) ==
    /\ workers[w].pc = at
    /\ \E next \in nexts : workers' = [workers EXCEPT ![w] = next]
    /\ UNCHANGED pool_world
    /\ UNCHANGED <<abundVars, headerVars, recordVars, assemblyVars, summaryVars>>
    /\ UNCHANGED <<indexVars, workflowVars>>

WorkerGetMagData ==
    \E w \in DOMAIN workers :
        WorkerTakesStep(w, "get_mag_data", get_mag_data_step(pool_world, workers[w]))

WorkerFindMagFile ==
    \E w \in DOMAIN workers :
        WorkerTakesStep(w, "find_mag_file", find_mag_file_step(pool_world, workers[w]))

WorkerReadFastaHeaders ==
    \E w \in DOMAIN workers :
        WorkerTakesStep(w, "read_fasta_headers",
                        read_fasta_headers_step(pool_world, workers[w]))

WorkerOpenDepthFile ==
    \E w \in DOMAIN workers :
        WorkerTakesStep(w, "get_abundance_data",
            {open_depth_file(workers[w], DepthFileOf(pool_world, workers[w].mag_name))})

\* The loop reads the mapped view of the process at the position of that view
WorkerScan ==
    \E w \in DOMAIN workers :
        WorkerTakesStep(w, "scan",
            scan_step(workers[w],
                      DepthFileOf(pool_world, workers[w].mag_name).file.lines,
                      own_position(Positions, w)))

WorkerWithExit ==
    \E w \in DOMAIN workers : WorkerTakesStep(w, "exit", with_exit_step(workers[w]))

WorkerCreateContigIds ==
    \E w \in DOMAIN workers :
        WorkerTakesStep(w, "create_contig_ids", create_contig_ids_step(workers[w]))

PoolNext ==
    \/ WorkerGetMagData
    \/ WorkerFindMagFile
    \/ WorkerReadFastaHeaders
    \/ WorkerOpenDepthFile
    \/ WorkerScan
    \/ WorkerWithExit
    \/ WorkerCreateContigIds

\* ------------------------------------------------------------------------
\* Specifications
\* ------------------------------------------------------------------------

\* The depth-file lookup of _get_abundance_data
Init == AbundInit /\ HeaderIdle /\ RecordIdle /\ AssemblyIdle /\ SummaryIdle /\ IndexIdle /\ PoolIdle /\ WorkflowIdle
Next == AbundNext
Spec == Init /\ [][Next]_vars

\* The header parser on one header
InitHeader == AbundIdle /\ HeaderInit /\ RecordIdle /\ AssemblyIdle /\ SummaryIdle /\ IndexIdle /\ PoolIdle /\ WorkflowIdle
NextHeader == HeaderNext
SpecHeader == InitHeader /\ [][NextHeader]_vars

\* The properties of one Mag
InitRecord == AbundIdle /\ HeaderIdle /\ RecordInit /\ AssemblyIdle /\ SummaryIdle /\ IndexIdle /\ PoolIdle /\ WorkflowIdle
NextRecord == RecordNext
SpecRecord == InitRecord /\ [][NextRecord]_vars

\* get_mag on one identifier, with the depth-file lookup inside it
InitAssembly == AbundIdle /\ HeaderIdle /\ RecordIdle /\ AssemblyInit /\ SummaryIdle /\ IndexIdle /\ PoolIdle /\ WorkflowIdle
NextAssembly == AssemblyNext \/ AbundNext
SpecAssembly == InitAssembly /\ [][NextAssembly]_vars

\* One SummaryRepository and the calls made on it
InitSummary == AbundIdle /\ HeaderIdle /\ RecordIdle /\ AssemblyIdle /\ SummaryInit /\ IndexIdle /\ PoolIdle /\ WorkflowIdle
NextSummary == SummaryNext
SpecSummary == InitSummary /\ [][NextSummary]_vars

\* The coverage of one Mag
InitCoverage == AbundIdle /\ HeaderIdle /\ CoverageInit /\ AssemblyIdle /\ SummaryIdle /\ IndexIdle /\ PoolIdle /\ WorkflowIdle
NextCoverage == CoverageNext
SpecCoverage == InitCoverage /\ [][NextCoverage]_vars

\* One AbundanceDB and the lookups made on it
InitIndex == AbundIdle /\ HeaderIdle /\ RecordIdle /\ AssemblyIdle /\ SummaryIdle /\ IndexInit /\ PoolIdle /\ WorkflowIdle
NextIndex == IndexNext
SpecIndex == InitIndex /\ [][NextIndex]_vars

\* get_mag in the worker processes of a pool, their steps interleaved
InitPool == AbundIdle /\ HeaderIdle /\ RecordIdle /\ AssemblyIdle /\ SummaryIdle /\ IndexIdle /\ PoolInit /\ WorkflowIdle
NextPool == PoolNext
SpecPool == InitPool /\ [][NextPool]_vars

\* run_workflow on one list of MAGs
InitWorkflow == AbundIdle /\ HeaderIdle /\ RecordIdle /\ AssemblyIdle /\ SummaryIdle /\ IndexIdle /\ PoolIdle /\ WorkflowInit
NextWorkflow == WorkflowNext
SpecWorkflow == InitWorkflow /\ [][NextWorkflow]_vars

\* ------------------------------------------------------------------------
\* The depth file as the properties below read it: the raw tab-separated
\* fields of a line, and the value columns of a list of column names
\* ------------------------------------------------------------------------

RawFields(line) == Split(line, TAB)

HasVarSibling(names, h) == \E q \in 1..Len(names) : names[q] = h \o VarSuffix

\* Positions of the value columns: no -var suffix, and a -var sibling
ValuePositions(names) ==
    {p \in 1..Len(names) : ~EndsWith(names[p], VarSuffix) /\ HasVarSibling(names, names[p])}

\* The value columns, in header order
ValueColumns(names) ==
    LET IsValue(h) == ~EndsWith(h, VarSuffix) /\ HasVarSibling(names, h)
    IN  SelectSeq(names, IsValue)

\* A column name without a trailing _merged.bam
CleanName(h) ==
    IF EndsWith(h, BamSuffix) THEN SubSeq(h, 1, Len(h) - Len(BamSuffix)) ELSE h

FileHeader == depth_file.lines[1]
DataLineIndexes == 2..Len(depth_file.lines)
LinesContaining(id) == {i \in DataLineIndexes : Contains(depth_file.lines[i], id)}

\* get_abund_for_contigs has returned its result through the with block
Resolved == pc = "done" /\ withEntered /\ exc = "none"

\* The case of C1 for id: exactly one data line contains id, that line
\* contains no other requested identifier, has one field per header column,
\* and every value-column field is a number (the file is UTF-8 text and
\* the cleaned sample names are distinct).
C1Case(id) ==
    /\ Decodable(FileHeader)
    /\ Cardinality(LinesContaining(id)) = 1
    /\ LET line == depth_file.lines[CHOOSE i \in LinesContaining(id) : TRUE]
           names == RawFields(FileHeader)
       IN  /\ Decodable(line)
           /\ \A other \in contig_names \ {id} : ~Contains(line, other)
           /\ Len(RawFields(line)) = Len(names)
           /\ \A p \in ValuePositions(names) : ParseFloat(RawFields(line)[p]).ok
           /\ \A p, q \in ValuePositions(names) :
                 p # q => CleanName(names[p]) # CleanName(names[q])

\* {cleaned sample name -> float of the line's field in that value column}
C1Expected(id) ==
    LET line == depth_file.lines[CHOOSE i \in LinesContaining(id) : TRUE]
        names == RawFields(FileHeader)
        VP == ValuePositions(names)
    IN  [sample \in {CleanName(names[p]) : p \in VP} |->
            ParseFloat(RawFields(line)[CHOOSE p \in VP : CleanName(names[p]) = sample]).val]

\* C1: for every requested id in the case above, resolve maps id to exactly
\* {cleaned sample name -> float of that line's field in the value column}.
\* Violated: str.strip() of the header line and of the data line drops a
\* leading empty field, so the fields no longer line up with the columns.
ClaimC1 ==
    Resolved =>
        \A id \in contig_names :
            C1Case(id) =>
                /\ id \in DictKeys(ret)
                /\ DictAsFn(DictGet(ret, id)) = C1Expected(id)

\* C1 on the files where strip() removes nothing from the header line and
\* from the line of id: on these the mapping is the claimed one.
C1OnUnstrippedLines ==
    Resolved =>
        \A id \in contig_names :
            (/\ C1Case(id)
             /\ Strip(FileHeader) = FileHeader
             /\ \A i \in LinesContaining(id) :
                    Strip(depth_file.lines[i]) = depth_file.lines[i])
            => /\ id \in DictKeys(ret)
               /\ DictAsFn(DictGet(ret, id)) = C1Expected(id)

\* C2: once the constructor has read the header, original_keys_to_extract is
\* exactly the header fields, in header order, that do not end in -var and
\* whose name with -var appended is also a header field, and
\* target_data_cols[i] is that column name without a trailing _merged.bam.
ClaimC2 ==
    db # NoDB =>
        /\ db.header_fields = HeaderFields(FileHeader)
        /\ db.original_keys_to_extract = ValueColumns(db.header_fields)
        /\ Len(db.target_data_cols) = Len(db.original_keys_to_extract)
        /\ \A i \in 1..Len(db.target_data_cols) :
              db.target_data_cols[i] = CleanName(db.original_keys_to_extract[i])

\* A header with two value columns and a column without a -var sibling,
\* which is left out
WitnessC2 ==
    /\ db # NoDB
    /\ Len(db.original_keys_to_extract) = 2
    /\ ColName \in Range(db.header_fields)
    /\ ColName \notin Range(db.original_keys_to_extract)
    /\ db.target_data_cols = <<<<"S1">>, <<"S2">>>>

\* C3: on a header that was read, construction fails with ValueError exactly
\* when the header yields no value column, and otherwise succeeds.
ClaimC3 ==
    db # NoDB =>
        LET failed == pc = "done" /\ ~withEntered /\ exc = "ValueError"
            succeeded == pc = "constructed" \/ withEntered
        IN  /\ ValueColumns(HeaderFields(FileHeader)) = <<>> <=> failed
            /\ ValueColumns(HeaderFields(FileHeader)) # <<>> <=> succeeded

\* The constructor raised on a header without value columns
WitnessC3 ==
    /\ db # NoDB
    /\ db.target_data_cols = <<>>
    /\ pc = "done" /\ exc = "ValueError"
    /\ handles.file

\* C4: no exception of a data line leaves resolve, and the mapping returned
\* has only requested identifiers as keys, none of them an identifier that
\* is a substring of no data line.
ClaimC4 ==
    /\ withEntered => exc \in {"none", "KeyboardInterrupt"}
    /\ Resolved =>
          /\ DictKeys(ret) \subseteq contig_names
          /\ \A id \in contig_names :
                LinesContaining(id) = {} => id \notin DictKeys(ret)

\* One requested identifier is in no line, another only in a line that
\* is not UTF-8 and is skipped: neither is a key of the result
WitnessC4 ==
    /\ Resolved
    /\ \E id \in contig_names : LinesContaining(id) = {}
    /\ \E id \in contig_names :
          /\ id \notin DictKeys(ret)
          /\ \E i \in LinesContaining(id) : ~Decodable(depth_file.lines[i])
    /\ scan.pos > Len(depth_file.lines)

\* C5: when the scoped use of the index has ended, by return or by an
\* exception out of resolve, its mapped view and file handle are closed;
\* a call that returned opened nothing else.
ClaimC5 ==
    /\ (pc = "done" /\ withEntered) => (~handles.mm /\ ~handles.file)
    /\ (pc = "done" /\ exc = "none") => (~handles.mm /\ ~handles.file)

\* The exception case: resolve was left by an exception after reading a line
WitnessC5 ==
    /\ pc = "done" /\ withEntered
    /\ exc = "KeyboardInterrupt"
    /\ scan.pos > 2
    /\ ~handles.mm /\ ~handles.file

GrammarOK(p) ==
    /\ p.gt \in {<<>>, <<">">>}
    /\ p.name # <<>> /\ \A i \in 1..Len(p.name) : p.name[i] \notin NonWordTokens
    /\ p.length # <<>> /\ \A i \in 1..Len(p.length) : p.length[i] \in Digits
    /\ p.circular \in {"yes", "possibly", "no"}
    /\ p.hasDepth
    /\ p.depth # <<>> /\ \A i \in 1..Len(p.depth) : p.depth[i] \in Digits \cup {".", "-"}
    /\ p.duplicated \in {"yes", "possibly", "no"}
    /\ p.suffix = <<>> \/ Head(p.suffix) = SPACE

\* The integer a length segment denotes
LengthValue(digits) ==
    CASE digits = <<"1", "0">> -> 10
      [] digits = <<"0", "7">> -> 7

\* C7: on a header that follows the grammar the strict parse succeeds,
\* whatever the leading '>' and the comment, and yields the name, the
\* integer length and the depth tag as written; is_circular and
\* is_duplicated are true exactly for yes.
ClaimC7 ==
    (strict.done /\ GrammarOK(header_parts)) =>
        /\ strict.exc = "none"
        /\ strict.header.name = header_parts.name
        /\ strict.header.length = LengthValue(header_parts.length)
        /\ strict.header.mylo_depth = header_parts.depth
        /\ strict.header.is_circular = (header_parts.circular = "yes")
        /\ strict.header.is_duplicated = (header_parts.duplicated = "yes")

\* A header with '>', a comment and circular-possibly, parsed to false
WitnessC7 ==
    /\ strict.done /\ GrammarOK(header_parts)
    /\ header_parts.gt = <<">">>
    /\ header_parts.suffix = <<SPACE, "x">>
    /\ header_parts.circular = "possibly"
    /\ header_parts.duplicated = "yes"
    /\ header_parts.name = <<"ctg", "_", "len">>
    /\ strict.exc = "none"
    /\ ~strict.header.is_circular
    /\ strict.header.is_duplicated

\* The sum of the values of a mapping
RECURSIVE SumOfValues(_)
SumOfValues(f) ==
    IF DOMAIN f = {} THEN 0
    ELSE LET k == CHOOSE x \in DOMAIN f : TRUE
         IN  f[k] + SumOfValues([x \in DOMAIN f \ {k} |-> f[x]])

\* C8: total_depth is the sum of the values of the abundance mapping, and
\* 0.0 when the mapping is empty.
ClaimC8 ==
    prop.op = "depth_from_all_samples" =>
        LET abund_info == mag.contigids[prop.arg].abund_info IN
        /\ prop.exc = "none"
        /\ prop.val = SumOfValues(DictAsFn(abund_info))
        /\ abund_info = EmptyDict => prop.val = 0

\* A contig with two samples: 1.0 + 2.5
WitnessC8 ==
    /\ prop.op = "depth_from_all_samples"
    /\ Len(mag.contigids[prop.arg].abund_info) = 2
    /\ prop.val = Dec(3, 5)

\* The assembler the code table gives, unknown for every other code
AssemblerOrUnknown(code) ==
    CASE code = <<"A">> -> <<"myloasm">>
      [] code = <<"M">> -> <<"medaka">>
      [] code = <<"P">> -> <<"proovframe">>
      [] OTHER -> <<"unknown">>

\* C9: for an identifier {sample_code}_{assembler_code}_{binner}.{cluster_id}
\* sample is token 0, long_sample is C00 + sample_code[1] + _ +
\* sample_code[2:4], binner is token 2 up to the first '.', and assembler is
\* myloasm / medaka / proovframe for A / M / P and unknown otherwise.
\* Violated: Mag.assembler subscripts the code table, so every other code
\* raises KeyError.
ClaimC9 ==
    LET sc == mag_parts.sample_code IN
    /\ prop.op = "sample" => (prop.exc = "none" /\ prop.val = sc)
    /\ prop.op = "long_sample" =>
          (prop.exc = "none"
           /\ prop.val = <<"C", "0", "0", sc[2], "_">>
                         \o [i \in 1..(Min(4, Len(sc)) - 2) |-> sc[i + 2]])
    /\ prop.op = "binner" => (prop.exc = "none" /\ prop.val = mag_parts.binner)
    /\ prop.op = "assembler" =>
          (prop.exc = "none" /\ prop.val = AssemblerOrUnknown(mag_parts.assembler_code))

\* C9 without the assembler of the codes outside A / M / P: these hold.
C9OnKnownCodes ==
    mag_parts.assembler_code \in {<<"A">>, <<"M">>, <<"P">>} => ClaimC9

\* C10: is_high_quality is true if and only if Completeness >= 90 and
\* Contamination <= 5.
ClaimC10 ==
    prop.op = "is_high_quality" =>
        /\ prop.exc = "none"
        /\ prop.val = TRUE <=>
              (mag.data.Completeness >= 90 * Scale /\ mag.data.Contamination <= 5 * Scale)

\* Both bounds met with equality
WitnessC10 ==
    /\ prop.op = "is_high_quality"
    /\ mag.data.Completeness = Dec(90, 0)
    /\ mag.data.Contamination = Dec(5, 0)
    /\ prop.val = TRUE

\* ------------------------------------------------------------------------
\* get_mag as the properties below read it
\* ------------------------------------------------------------------------

\* The identifiers of the summary table
SummaryIndex == {world.summary[i].id : i \in 1..Len(world.summary)}

\* The lookups of the sequence file get_mag has made so far
SequenceFileLookups ==
    {i \in 1..Len(fs_log) : fs_log[i][1] \in {"exists", "open"}}

\* The depth file of the requested identifier exists: abund_dir holds at
\* most the file of assembler myloasm and sample C1A3
AbundanceFileExists == world.mag_name = MagNameA /\ world.abund_dir.exists

\* get_mag is past reading the sequence file
PastReading ==
    asm.pc \in {"get_abundance_data", "abundance", "create_contig_ids"}
    \/ (asm.pc = "done" /\ asm.mag_fasta_path # <<>>)

\* The header lines of the sequence file, in file order
RECURSIVE HeaderLinesOf(_)
HeaderLinesOf(lines) ==
    IF lines = <<>> THEN <<>>
    ELSE IF Head(Head(lines)) = ">"
    THEN <<Head(lines)>> \o HeaderLinesOf(Tail(lines))
    ELSE HeaderLinesOf(Tail(lines))

\* The segments a header line was put together from
PartsOf(line) == CHOOSE p \in FastaHeaderParts : BuildHeader(p) \o <<NL>> = line

\* Every header line of the sequence file follows the grammar
AllHeadersWellFormed ==
    \A i \in 1..Len(HeaderLinesOf(world.fasta.lines)) :
        GrammarOK(PartsOf(HeaderLinesOf(world.fasta.lines)[i]))

\* C11: get_mag for an identifier that is not in the summary raises KeyError
\* before the sequence file is looked up or opened; for an identifier of the
\* summary whose sequence file does not exist it raises FileNotFoundError,
\* another exception; in neither case is a Mag returned.
ClaimC11 ==
    /\ world.mag_name \notin SummaryIndex =>
          /\ SequenceFileLookups = {}
          /\ pc = "idle"
          /\ asm_out.kind # "returned"
          /\ asm.pc = "done" => (asm_out.kind = "raised" /\ asm_out.exc = "KeyError")
    /\ (world.mag_name \in SummaryIndex /\ ~world.fasta.exists) =>
          /\ \A i \in 1..Len(fs_log) : fs_log[i][1] # "open"
          /\ pc = "idle"
          /\ asm_out.kind # "returned"
          /\ asm.pc = "done" =>
                (asm_out.kind = "raised" /\ asm_out.exc = "FileNotFoundError")

\* An identifier that is not in the summary, although its sequence file and
\* its depth file exist
WitnessC11 ==
    /\ asm.pc = "done"
    /\ world.mag_name \notin SummaryIndex
    /\ world.fasta.exists /\ world.abund_dir.exists
    /\ asm_out.exc = "KeyError"
    /\ fs_log = << <<"summary.loc", world.mag_name>> >>

\* C12: when the depth file of the identifier does not exist, or the
\* sequence file gives no contig name, no AbundanceDB is opened and the
\* lookup raises nothing; get_mag then returns a Mag whose contigs all have
\* the empty abundance dict if every header is well-formed.
ClaimC12 ==
    (PastReading /\ (~AbundanceFileExists \/ asm.contig_names = {})) =>
        /\ handles = NoHandles /\ db = NoDB /\ ~withEntered
        /\ exc = "none"
        /\ (asm.pc = "done" /\ AllHeadersWellFormed) =>
              /\ asm_out.kind = "returned"
              /\ \A i \in 1..Len(asm_out.mag.contigids) :
                    asm_out.mag.contigids[i].abund_info = EmptyDict

\* The identifier of another assembler: abund_dir holds a depth file with
\* lines of the contigs, and it is not the identifier's
WitnessC12 ==
    /\ asm.pc = "done"
    /\ world.mag_name = MagNameX
    /\ world.abund_dir.exists /\ Len(world.abund_dir.lines) = 3
    /\ asm.contig_names = {ctgA, ctg10}
    /\ asm_out.kind = "returned"
    /\ Len(asm_out.mag.contigids) = 2

\* C17: the Mag get_mag returns has one ContigID per header line of the
\* sequence file, in file order: the i-th is parsed from the i-th header
\* line and has the abundance dict the lookup returned for its name, the
\* empty dict if it returned none.
ClaimC17 ==
    asm_out.kind = "returned" =>
        LET H == HeaderLinesOf(world.fasta.lines)
            contigids == asm_out.mag.contigids
        IN  /\ Len(contigids) = Len(H)
            /\ \A i \in 1..Len(H) :
                  LET p == PartsOf(H[i]) IN
                  /\ contigids[i].name = BuildHeader(p)
                  /\ contigids[i].header.name = p.name
                  /\ contigids[i].header.length = LengthValue(p.length)
                  /\ contigids[i].header.mylo_depth = p.depth
                  /\ contigids[i].abund_info =
                        IF p.name \in DictKeys(ret) THEN DictGet(ret, p.name)
                        ELSE EmptyDict

\* Two different headers, the first with a line in the depth file, the
\* second without
WitnessC17 ==
    /\ asm_out.kind = "returned"
    /\ Len(asm_out.mag.contigids) = 2
    /\ asm_out.mag.contigids[1].header.name = ctg10
    /\ asm_out.mag.contigids[2].header.name = ctgA
    /\ asm_out.mag.contigids[1].abund_info # EmptyDict
    /\ asm_out.mag.contigids[2].abund_info = EmptyDict

\* C18: if a header line of the sequence file fails the grammar, get_mag
\* raises ValueError from making the ContigIDs and returns no Mag, although
\* the harvesting of the names passed over that header.
ClaimC18 ==
    (world.mag_name \in SummaryIndex /\ world.fasta.exists
     /\ ~AllHeadersWellFormed) =>
        /\ asm_out.kind # "returned"
        /\ asm.pc = "done" =>
              /\ asm_out.kind = "raised"
              /\ exc = "none" => asm_out.exc = "ValueError"
              /\ exc # "none" => asm_out.exc = exc
        /\ PastReading =>
              Len(asm.header_strings) = Len(HeaderLinesOf(world.fasta.lines))

\* A well-formed header and a malformed one: the names were harvested and
\* looked up, then the malformed header ended get_mag
WitnessC18 ==
    /\ asm.pc = "done"
    /\ Len(HeaderLinesOf(world.fasta.lines)) = 2
    /\ ~AllHeadersWellFormed
    /\ asm.contig_names = {ctgA}
    /\ ret # EmptyDict
    /\ asm_out.kind = "raised" /\ asm_out.exc = "ValueError"

\* ------------------------------------------------------------------------
\* The summary table as the properties below read it
\* ------------------------------------------------------------------------

\* The table as it was loaded from the file
AsLoaded == SummaryRepository_post_init(repo.impl, summary_file).summary

\* The query strings that are valid queries of the table
ValidQueries == {HqQuery, QueryAll, QueryMyloasm, QueryMetabat}

\* The calls that evaluate a query string
QueryCalls ==
    {"get_mags_by_query", "get_hq_mag_names", "SessionManager.get_mags_by_query"}

\* The assembler code and the binner of the identifiers that follow the
\* convention
CodeOf(id) ==
    CASE id = MagNameA -> <<"A">>
      [] id = MagNameX -> <<"X">>
      [] id = MagNameM -> <<"M">>

BinnerOf(id) ==
    CASE id = MagNameA -> <<"metabat">>
      [] id = MagNameX -> <<"metabat">>
      [] id = MagNameM -> <<"semibin">>

\* A row of the file satisfies a valid query
Satisfies(row, q) ==
    CASE q = HqQuery -> row.Completeness >= 90 * Scale /\ row.Contamination <= 5 * Scale
      [] q = QueryAll -> row.Completeness >= 0
      [] q = QueryMyloasm -> CodeOf(row.id) = <<"A">>
      [] q = QueryMetabat -> BinnerOf(row.id) = <<"metabat">>

\* The identifiers of the rows that satisfy a valid query, in row order
RECURSIVE SatisfyingIds(_, _)
SatisfyingIds(rows, q) ==
    IF rows = <<>> THEN <<>>
    ELSE IF Satisfies(Head(rows), q)
    THEN <<Head(rows).id>> \o SatisfyingIds(Tail(rows), q)
    ELSE SatisfyingIds(Tail(rows), q)

DistinctIds ==
    \A i, j \in 1..Len(summary_file) :
        summary_file[i].id = summary_file[j].id => i = j

\* C14: for a valid query on a table of distinct identifiers, the list
\* SummaryRepository.get_mags_by_query returns, and the list
\* SessionManager.get_mags_by_query returns without restrict_to, holds the
\* identifiers of the rows that satisfy the query, in the order of the rows.
\* Violated: SessionManager.get_mags_by_query goes through set(...), whose
\* iteration order is not the order of the rows.
ClaimC14 ==
    (/\ call.op \in {"get_mags_by_query", "SessionManager.get_mags_by_query"}
     /\ call.restrict_to.isNone
     /\ call.query \in ValidQueries
     /\ DistinctIds) =>
        /\ call.exc = "none"
        /\ call.val = SatisfyingIds(summary_file, call.query)

\* C14 of SummaryRepository.get_mags_by_query alone: this holds.
C14OnSummaryRepository ==
    (call.op = "get_mags_by_query" /\ call.query \in ValidQueries) =>
        /\ call.exc = "none"
        /\ call.val = SatisfyingIds(summary_file, call.query)

\* C15: a file with two rows of the same identifier fails to load; in every
\* loaded table the identifiers are pairwise distinct and get_mag_data
\* gives the column -> value mapping of one row.
\* Violated: the load does not look at the index.
ClaimC15 ==
    /\ ~DistinctIds => ~repo.loaded
    /\ repo.loaded =>
          \A i, j \in 1..Len(repo.summary) :
              repo.summary[i].id = repo.summary[j].id => i = j
    /\ (call.op = "get_mag_data" /\ call.exc = "none") => call.kind = "row"

\* C16: every row of a loaded table has a binner column that is the third
\* token of the identifier up to the first '.', and an assembler column
\* that is myloasm / medaka / proovframe for the second token A / M / P and
\* the string unknown for every other token.
\* Violated: src/src/models.py reads the code table with .get(code), so the
\* assembler of every other token is None.
ClaimC16 ==
    repo.loaded =>
        /\ Len(repo.summary) = Len(summary_file)
        /\ \A i \in 1..Len(repo.summary) :
              /\ repo.summary[i].id = summary_file[i].id
              /\ repo.summary[i].binner = PyStr(BinnerOf(summary_file[i].id))
              /\ repo.summary[i].assembler =
                    PyStr(AssemblerOrUnknown(CodeOf(summary_file[i].id)))

\* C16 of src/magrefine/sessionmanager.py, and of the tokens A / M / P in
\* src/src/models.py: these hold.
C16OnMagrefineOrKnownCodes ==
    (repo.impl = "magrefine"
     \/ \A i \in 1..Len(summary_file) :
            summary_file[i].id \in {MagNameA, MagNameM}) => ClaimC16

\* ------------------------------------------------------------------------
\* The coverage as the properties below read it
\* ------------------------------------------------------------------------

\* total_depth of a contig
TotalDepth(c) == SumOfValues(DictAsFn(c.abund_info))

\* sum(length) over the first k contigs
RECURSIVE SumOfLengths(_, _)
SumOfLengths(contigids, k) ==
    IF k = 0 THEN 0 ELSE SumOfLengths(contigids, k - 1) + contigids[k].length

\* sum(total_depth x length) over the first k contigs, in floats
RECURSIVE WeightedDepthSum(_, _)
WeightedDepthSum(contigids, k) ==
    IF k = 0 THEN 0
    ELSE FloatAdd(WeightedDepthSum(contigids, k - 1),
                  FloatMul(TotalDepth(contigids[k]), contigids[k].length))

\* sum(total_depth x length) over the first k contigs, in exact arithmetic
RECURSIVE ExactWeightedDepthSum(_, _)
ExactWeightedDepthSum(contigids, k) ==
    IF k = 0 THEN 0
    ELSE ExactWeightedDepthSum(contigids, k - 1)
         + TotalDepth(contigids[k]) * contigids[k].length

\* The exceptions that are an ArithmeticError
ArithmeticErrors == {"ZeroDivisionError", "OverflowError", "FloatingPointError"}

\* C19: average_coverage_total is sum(total_depth x length) / sum(length)
\* over the contigs; when there is no contig or the lengths sum to 0 it
\* raises an ArithmeticError and returns nothing.
ClaimC19 ==
    prop.op = "average_coverage_total" =>
        LET n == Len(mag.contigids)
            lengths == SumOfLengths(mag.contigids, n)
        IN  IF n = 0 \/ lengths = 0
            THEN prop.exc \in ArithmeticErrors
            ELSE /\ prop.exc = "none"
                 /\ prop.val.num * lengths
                       = WeightedDepthSum(mag.contigids, n) * prop.val.den

\* Three contigs, one of them of length 0: 10.0 x 1 + 3.5 x 20 over 21
WitnessC19 ==
    /\ prop.op = "average_coverage_total"
    /\ Len(mag.contigids) = 3
    /\ mag.contigids[2].length = 0
    /\ prop.exc = "none"
    /\ prop.val = [num |-> Dec(80, 0), den |-> 21]

\* A contig of length 0 alone: the lengths sum to 0
WitnessC19ZeroLength ==
    /\ prop.op = "average_coverage_total"
    /\ Len(mag.contigids) = 1
    /\ prop.exc = "ZeroDivisionError"

\* The orders of n things
Orders(n) == {p \in [1..n -> 1..n] : \A i, j \in 1..n : p[i] = p[j] => i = j}

\* The contigs in another order
Reordered(contigids, p) == [i \in 1..Len(contigids) |-> contigids[p[i]]]

\* Two outcomes of average_coverage_total are equal: both raise the same, or
\* both return the same quotient
SameAverage(a, b) ==
    /\ a.exc = b.exc
    /\ a.exc = "none" => a.num * b.den = b.num * a.den

\* No operation of the weighted sum was rounded off its exact value
ExactlySummed(contigids) ==
    average_coverage_total(contigids).num
        = ExactWeightedDepthSum(contigids, Len(contigids))

\* C20: average_coverage_total does not depend on the order of the contigs:
\* the Mag of the same contigs in any other order has the same
\* average_coverage_total, or both raise.
\* Violated: float addition rounds, and the rounding depends on the order.
ClaimC20 ==
    prop.op = "average_coverage_total" =>
        \A p \in Orders(Len(mag.contigids)) :
            SameAverage(average_coverage_total(Reordered(mag.contigids, p)),
                        [exc |-> prop.exc, num |-> prop.val.num,
                         den |-> prop.val.den])

\* C20 as it holds: in any other order of the contigs average_coverage_total
\* raises if and only if it raises in this one, and returns the same value
\* whenever the weighted sum of neither order is rounded.
ClaimC20UpToRounding ==
    prop.op = "average_coverage_total" =>
        \A p \in Orders(Len(mag.contigids)) :
            LET other == Reordered(mag.contigids, p)
                a == average_coverage_total(other)
            IN  /\ a.exc = prop.exc
                /\ (ExactlySummed(mag.contigids) /\ ExactlySummed(other)) =>
                      SameAverage(a, [exc |-> prop.exc, num |-> prop.val.num,
                                      den |-> prop.val.den])

\* Three different contigs whose weighted sum is not rounded in any order
WitnessC20 ==
    /\ prop.op = "average_coverage_total"
    /\ Len(mag.contigids) = 3
    /\ mag.contigids[1].length = 1
    /\ mag.contigids[2].length = 20
    /\ mag.contigids[3].length = 10
    /\ prop.exc = "none"
    /\ \A p \in Orders(3) : ExactlySummed(Reordered(mag.contigids, p))

\* ------------------------------------------------------------------------
\* The coverage of one sample as the properties below read it
\* ------------------------------------------------------------------------

\* The sample name the call is about: the one handed in, or the Mag's own
\* long sample when none was
SampleAskedFor ==
    IF prop.arg.isNone THEN Mag_long_sample(mag.name).val ELSE prop.arg.str

\* Some contig's abundance mapping lacks the sample
SomeContigLacks(s) ==
    \E i \in 1..Len(mag.contigids) : s \notin DictKeys(mag.contigids[i].abund_info)

\* C21: on a Mag of at least one contig average_coverage_per_sample(s)
\* raises KeyError whenever the abundance mapping of some contig lacks s,
\* the empty mapping included, for every string s; with no sample name s is
\* the Mag's long_sample.
\* Violated: for the empty string get_depth_per_contig returns the depth of
\* all samples, and the call returns the total coverage.
ClaimC21 ==
    (prop.op = "average_coverage_per_sample" /\ Len(mag.contigids) >= 1) =>
        (SomeContigLacks(SampleAskedFor) => prop.exc = "KeyError")

\* C21 for the sample names that are not the empty string
C21OnNonEmptyNames ==
    (/\ prop.op = "average_coverage_per_sample"
     /\ Len(mag.contigids) >= 1
     /\ SampleAskedFor # <<>>) =>
        (SomeContigLacks(SampleAskedFor) => prop.exc = "KeyError")

\* No sample name, and the second contig has no abundance at all
WitnessC21 ==
    /\ prop.op = "average_coverage_per_sample"
    /\ prop.arg.isNone
    /\ Len(mag.contigids) = 2
    /\ LongSampleA \in DictKeys(mag.contigids[1].abund_info)
    /\ mag.contigids[2].abund_info = EmptyDict
    /\ prop.exc = "KeyError"

\* ------------------------------------------------------------------------
\* The lookups on one AbundanceDB as the properties below read them
\* ------------------------------------------------------------------------

IndexColumns == RawFields(index_file[1])
IndexDataNumbers == 2..Len(index_file)

\* The value-column fields the line has
ProjectedPositions(i) ==
    {p \in ValuePositions(IndexColumns) : p <= Len(RawFields(index_file[i]))}

\* Every projected field of line i converts to float / some field does not
Convertible(i) ==
    \A p \in ProjectedPositions(i) : ParseFloat(RawFields(index_file[i])[p]).ok
Unconvertible(i) == ~Convertible(i)

\* {cleaned sample name -> float of the field} of the projected fields
ValuesOfLine(i) ==
    LET P == ProjectedPositions(i) IN
    [sample \in {CleanName(IndexColumns[p]) : p \in P} |->
        ParseFloat(RawFields(index_file[i])
                      [CHOOSE p \in P : CleanName(IndexColumns[p]) = sample]).val]

\* The step read a data line within one call
LineRead ==
    /\ resolve.active
    /\ Len(resolve'.read) = Len(resolve.read) + 1
LineJustRead == resolve'.read[Len(resolve'.read)]

\* Line j is the first line that contains id with convertible values, and a
\* line before it contains id with a value that is not convertible
RetriedOn(id, j) ==
    /\ j \in IndexDataNumbers
    /\ Contains(index_file[j], id) /\ Convertible(j)
    /\ \A i \in 2..(j - 1) : Contains(index_file[i], id) => Unconvertible(i)
    /\ \E i \in 2..(j - 1) : Contains(index_file[i], id)

\* A line with an outstanding identifier and an unconvertible value is
\* skipped: nothing is resolved and nothing leaves the outstanding set
C23Skip ==
    (/\ LineRead
     /\ \E id \in resolve.contigs_left : Contains(index_file[LineJustRead], id)
     /\ Unconvertible(LineJustRead))
    => /\ resolve'.contigs_left = resolve.contigs_left
       /\ resolve'.results = resolve.results

\* The later line resolves the identifier
C23Later ==
    resolve.returned =>
        \A id \in resolve.requested : \A j \in IndexDataNumbers :
            RetriedOn(id, j) =>
                /\ id \in DictKeys(resolve.ret)
                /\ DictAsFn(DictGet(resolve.ret, id)) = ValuesOfLine(j)

\* C23: a data line that contains an outstanding identifier but has a
\* value-column field that does not convert to float is skipped, the
\* identifier stays outstanding and gets no entry from that line, and a
\* later line that contains the identifier with convertible values resolves
\* it.
\* Violated in its last part: when the later line also contains another
\* outstanding identifier (ctg1 occurs in a line of ctg10), that one may be
\* the one found, and the identifier is never resolved.
ClaimC23 == [][C23Skip]_vars /\ []C23Later

\* C23 where the later line contains no other requested identifier
C23OnSeparateLines ==
    /\ [][C23Skip]_vars
    /\ [](resolve.returned =>
            \A id \in resolve.requested : \A j \in IndexDataNumbers :
                (/\ RetriedOn(id, j)
                 /\ \A other \in resolve.requested \ {id} :
                        ~Contains(index_file[j], other))
                => /\ id \in DictKeys(resolve.ret)
                   /\ DictAsFn(DictGet(resolve.ret, id)) = ValuesOfLine(j))

\* ctg10 alone: its first line is skipped, its second line resolves it
WitnessC23 ==
    /\ resolve.returned
    /\ resolve.requested = {ctg10}
    /\ Len(index_file) = 3
    /\ Unconvertible(2)
    /\ RetriedOn(ctg10, 3)
    /\ ctg10 \in DictKeys(resolve.ret)

\* C24: each data line resolves at most one requested identifier: the name
\* found is the last one tested against the line, a line adds at most one
\* entry, an entry once made is not made again or changed, and there are
\* never more entries than data lines read.
C24State ==
    (resolve.active \/ resolve.returned) =>
        /\ Len(resolve.results) <= Len(resolve.read)
        /\ DictKeys(resolve.results) \cap resolve.contigs_left = {}
        /\ DictKeys(resolve.results) \cup resolve.contigs_left = resolve.requested
        /\ resolve.outcome = "resolved" =>
              /\ resolve.tested[Len(resolve.tested)] = resolve.found.str
              /\ \A k \in 1..(Len(resolve.tested) - 1) :
                    resolve.tested[k] # resolve.found.str
                    /\ ~Contains(index_file[resolve.read[Len(resolve.read)]],
                                 resolve.tested[k])

C24Step ==
    LineRead =>
        /\ Cardinality(DictKeys(resolve'.results) \ DictKeys(resolve.results)) <= 1
        /\ \A k \in DictKeys(resolve.results) :
              /\ k \in DictKeys(resolve'.results)
              /\ DictGet(resolve'.results, k) = DictGet(resolve.results, k)

ClaimC24 == []C24State /\ [][C24Step]_vars

\* ctg1 and ctg10 are outstanding and both occur in the line: ctg10 is
\* found, and ctg1 is neither tested nor resolved
WitnessC24 ==
    /\ resolve.active
    /\ resolve.outcome = "resolved"
    /\ resolve.requested = {ctg1, ctg10}
    /\ resolve.tested = <<ctg10>>
    /\ resolve.contigs_left = {ctg1}
    /\ Contains(index_file[resolve.read[Len(resolve.read)]], ctg1)

\* C25: no data line is read once nothing is outstanding (the lookup of the
\* empty set reads none, raises nothing and returns the empty mapping).
C25State ==
    ((resolve.active \/ resolve.returned) /\ resolve.requested = {}) =>
        /\ resolve.read = <<>>
        /\ resolve.exc = "none"
        /\ resolve.returned => resolve.ret = EmptyDict

C25Step ==
    (resolve.active /\ resolve.contigs_left = {}) =>
        /\ resolve'.read = resolve.read
        /\ index'.mm_pos = index.mm_pos

ClaimC25 == []C25State /\ [][C25Step]_vars

\* The first data line resolves the only identifier; the second is not read
WitnessC25 ==
    /\ resolve.returned
    /\ resolve.requested = {ctgA}
    /\ Len(index_file) = 3
    /\ resolve.read = <<2>>
    /\ index.mm_pos = 3
    /\ DictKeys(resolve.ret) = {ctgA}

\* The mappings a lookup of the names from data line i on can return, over
\* every order in which the outstanding names may be tried
RECURSIVE OutcomesFrom(_, _, _)
OutcomesFrom(i, left, results) ==
    IF left = {} \/ i > Len(index_file) THEN {DictAsFn(results)}
    ELSE LET matching == {id \in left : Contains(index_file[i], id)} IN
         IF matching = {} \/ Unconvertible(i)
         THEN OutcomesFrom(i + 1, left, results)
         ELSE UNION {OutcomesFrom(i + 1, left \ {id},
                                  DictSet(results, id, ValuesOfLine(i))) :
                        id \in matching}

\* C26: for a fixed file and a fixed set of names the returned mapping is
\* the same on every run, whatever the order in which the outstanding names
\* are tried, also when one name is a substring of another.
\* Violated: for ctg1 and ctg10 a line of ctg10 resolves whichever the
\* iteration of the set tries first.
ClaimC26 ==
    resolve.returned =>
        \A o \in OutcomesFrom(2, resolve.requested, EmptyDict) :
            o = [k \in DictKeys(resolve.ret) |->
                    DictAsFn(DictGet(resolve.ret, k))]

\* C26 on the files in which no line contains two of the requested names
C26OnSeparateNames ==
    (/\ resolve.returned
     /\ \A i \in IndexDataNumbers :
           Cardinality({id \in resolve.requested : Contains(index_file[i], id)}) <= 1)
    => \A o \in OutcomesFrom(2, resolve.requested, EmptyDict) :
            o = [k \in DictKeys(resolve.ret) |->
                    DictAsFn(DictGet(resolve.ret, k))]

\* The cleaned sample names computed at construction
CleanedSampleNames ==
    {CleanName(IndexColumns[p]) : p \in ValuePositions(IndexColumns)}

\* C27: every mapping returned for a found identifier has exactly one entry
\* per value column, its keys being the cleaned sample names, also for a
\* line of fewer fields than the header.
\* Violated: a value column the line has no field for gets no entry.
ClaimC27 ==
    resolve.returned =>
        \A id \in DictKeys(resolve.ret) :
            DictKeys(DictGet(resolve.ret, id)) = CleanedSampleNames

\* C27 on the files whose data lines have a field for every column
C27OnFullLines ==
    (/\ resolve.returned
     /\ \A i \in IndexDataNumbers :
           Len(RawFields(index_file[i])) >= Len(IndexColumns))
    => \A id \in DictKeys(resolve.ret) :
            DictKeys(DictGet(resolve.ret, id)) = CleanedSampleNames

\* C29: a lookup has no effect on later lookups: the caller's set and the
\* header and value-column lists of the AbundanceDB stay as they were, the
\* scan starts at the first data line every time, and the mapping returned
\* is one the same lookup returns on the AbundanceDB just constructed.
ClaimC29 ==
    /\ index.constructed =>
          /\ index.header_fields = IndexColumns
          /\ index.original_keys_to_extract = ValueColumns(IndexColumns)
          /\ index.target_data_cols
                = [p \in 1..Len(ValueColumns(IndexColumns)) |->
                      CleanName(ValueColumns(IndexColumns)[p])]
    /\ (resolve.active \/ resolve.returned) =>
          /\ resolve.caller_set = resolve.requested
          /\ \A k \in 1..Len(resolve.read) : resolve.read[k] = k + 1
    /\ resolve.returned =>
          [k \in DictKeys(resolve.ret) |-> DictAsFn(DictGet(resolve.ret, k))]
              \in OutcomesFrom(2, resolve.requested, EmptyDict)

\* The second lookup on an AbundanceDB: it reads both data lines from the
\* first one on
WitnessC29 ==
    /\ resolve.returned
    /\ index.calls = 2
    /\ Len(index_file) = 3
    /\ resolve.requested = {ctgA}
    /\ resolve.read = <<2, 3>>
    /\ ctgA \in DictKeys(resolve.ret)

\* The AbundanceDB constructor raised because the header has no value
\* column: the with block of _get_abundance_data was never entered
ConstructionFailed ==
    /\ pc = "done"
    /\ ~withEntered
    /\ exc = "ValueError"
    /\ depth_file.lines # <<>>
    /\ Decodable(FileHeader)
    /\ ValueColumns(RawFields(Strip(FileHeader))) = <<>>

\* C28: when the construction of the AbundanceDB fails for want of value
\* columns, the file handle and the mapped view the constructor had opened
\* are closed: no resource of the depth file is left open, also inside
\* get_mag.
\* Violated: __init__ raises after open() and mmap() and closes neither, and
\* __exit__ does not run for an object the with statement never got.
ClaimC28 == ConstructionFailed => handles = NoHandles

\* ------------------------------------------------------------------------
\* run_workflow as the property below reads it
\* ------------------------------------------------------------------------

\* The k-th chunk of the list: its next chunk_size names
ChunkOfList(k) ==
    [j \in 1..Min(wf.chunk_size,
                  Len(wf.mags_to_process) - (k - 1) * wf.chunk_size) |->
        wf.mags_to_process[(k - 1) * wf.chunk_size + j]]

\* C30: the commands issued are, chunk after chunk in the order of the
\* list, the unlock command of the chunk and then its run command; a run
\* command that returned a non-zero code is the last command issued and the
\* workflow has ended with exit status 1; for the empty list no command is
\* issued.
ClaimC30 ==
    /\ \A j \in 1..Len(wf.issued) :
          LET k == (j + 1) \div 2 IN
          /\ wf.issued[j].chunk = k
          /\ wf.issued[j].kind = (IF j % 2 = 1 THEN "unlock" ELSE "run")
          /\ wf.issued[j].mags = ChunkOfList(k)
          /\ wf.issued[j].mags # <<>>
          /\ (wf.issued[j].kind = "run" /\ wf.issued[j].returncode # 0) =>
                /\ j = Len(wf.issued)
                /\ wf.pc = "done"
                /\ wf.exit = 1
    /\ wf.mags_to_process = <<>> => wf.issued = <<>>

\* Three MAGs in chunks of two: the run command of the first chunk fails,
\* and no command of the second chunk is issued
WitnessC30 ==
    /\ wf.mags_to_process = <<1, 2, 3>>
    /\ wf.chunk_size = 2
    /\ Len(wf.issued) = 2
    /\ wf.issued[2].kind = "run"
    /\ wf.issued[2].mags = <<1, 2>>
    /\ wf.issued[2].returncode = 1
    /\ wf.pc = "done"
    /\ wf.exit = 1

\* Both chunks run to the end
WitnessC30AllChunks ==
    /\ wf.mags_to_process = <<1, 2, 3>>
    /\ wf.chunk_size = 2
    /\ Len(wf.issued) = 4
    /\ wf.issued[4].mags = <<3>>
    /\ wf.pc = "done"
    /\ wf.exit = 0

\* ---------------------------------------------------------------------
\* C22: get_mag calls running at the same time
\* ---------------------------------------------------------------------

\* What get_mag returns or raises from the locals me on, when its steps are
\* taken with no other process running
RECURSIVE RunAlone(_, _)
RunAlone(shared, me) ==
    IF me.pc = "done" THEN {me.out}
    ELSE UNION {RunAlone(shared, next) : next \in get_mag_step(shared, me, me.mm_pos)}

AloneOutcomes(shared, mag_name) == RunAlone(shared, NewWorker(mag_name))

FinishedWorkers == {w \in DOMAIN workers : workers[w].pc = "done"}

\* Every process that has finished returned or raised what get_mag does
\* alone on the same summary and directories, and closed the handle and
\* the mapped view it had entered the with block on
C22State ==
    \A w \in FinishedWorkers :
        /\ workers[w].out \in AloneOutcomes(pool_world, workers[w].mag_name)
        /\ workers[w].withEntered =>
              workers[w].handles = [file |-> FALSE, mm |-> FALSE]

\* A step is a step of one process: it leaves the summary, the directories
\* and the locals, handle and mapped view of every other process as they were
C22Step ==
    /\ pool_world' = pool_world
    /\ \A w \in DOMAIN workers :
          workers'[w] # workers[w] =>
              \A v \in DOMAIN workers \ {w} : workers'[v] = workers[v]

\* C22: get_mag calls that run at the same time on the same summary table
\* and directories, for the same or for different MAG names, share no
\* mutable state: each opens and closes its own depth-file handle and
\* mapped view, and under every interleaving of their steps each returns
\* the Mag, or raises the error, that it returns or raises when run alone.
ClaimC22 == [](C22State) /\ [][C22Step]_vars

\* In the worlds of the pool a get_mag call run alone has one outcome, so
\* ClaimC22 compares each process with that one outcome
C22AloneIsOneOutcome ==
    \A w \in DOMAIN workers :
        Cardinality(AloneOutcomes(pool_world, workers[w].mag_name)) = 1

\* One process has returned its Mag with the coverage of a contig and closed
\* its mapped view while another, given the same MAG name, is still
\* scanning the same depth file through its own open mapped view
WitnessC22 ==
    \E w, v \in DOMAIN workers :
        /\ w # v
        /\ workers[w].mag_name = workers[v].mag_name
        /\ workers[w].pc = "done"
        /\ workers[w].out.kind = "returned"
        /\ \E i \in DOMAIN workers[w].out.mag.contigids :
              workers[w].out.mag.contigids[i].abund_info # EmptyDict
        /\ ~workers[w].handles.mm
        /\ workers[v].pc = "scan"
        /\ workers[v].handles.mm
        /\ workers[v].mm_pos > 2

\* Two processes given different MAG names have both finished, one with a
\* Mag and one with an error
WitnessC22DifferentNames ==
    \E w, v \in FinishedWorkers :
        /\ workers[w].mag_name # workers[v].mag_name
        /\ workers[w].out.kind = "returned"
        /\ workers[v].out.kind = "raised"

=============================================================================
